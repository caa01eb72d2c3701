--------------------------- MODULE PreprocessedDir ---------------------------
(***************************************************************************)
(* Preprocessed data in a directory (pir_preprocessed_data.h): one file of *)
(* metadata and one file per shard, written one after the other over what  *)
(* is there, and read back one after the other.  A preprocessing job saves *)
(* generation after generation; an online server loads when it likes.      *)
(* Nothing orders the two, either may die at any point, and a file names   *)
(* neither the generation nor the seed it belongs to.                      *)
(*                                                                         *)
(* A file is the sequence of its blocks, each tagged with the generation   *)
(* it was written from.  A file that ends early is what a truncated        *)
(* protobuf is: it fails to parse, or parses into a message with fewer     *)
(* repeated fields.                                                        *)
(***************************************************************************)
EXTENDS Integers, Sequences

CONSTANTS
    Generations,     \* what Preprocess returned for successive databases
    Misshapen,       \* generations preprocessed for another number of shards
    Seeds,           \* seeds of the "a" stream
    SeedOf,          \* the seed each generation was preprocessed under
    NumShards,       \* EntrySizeMultiple()
    HasSecondDim,    \* whether InterpolationDegree() > 1
    Blocks,          \* bound: blocks of a file
    None,            \* no file, process or server
    Garbage          \* what a decryption under mismatched randomness yields

Files == 0 .. NumShards

Maybe(S) == S \cup {None}

Contents == Seq(Generations)

Savers == [gen : Generations, file : Files, open : BOOLEAN, lost : BOOLEAN]

Outcomes == [gen : Generations, lost : BOOLEAN]

Servers == [parts : Seq(Contents), since : Maybe(Outcomes)]

Loaders ==
    [parts : Seq(Contents), size : Maybe(Nat), got : Contents, since : Maybe(Outcomes)]

ASSUME DirAssumption ==
    /\ Misshapen \subseteq Generations
    /\ SeedOf \in [Generations -> Seeds]
    /\ NumShards \in Nat \ {0}
    /\ HasSecondDim \in BOOLEAN
    /\ Blocks \in Nat \ {0}
    /\ Garbage \notin Generations
    /\ None \notin Nat /\ None \notin Contents
    /\ None \notin Savers /\ None \notin Outcomes
    /\ None \notin Loaders /\ None \notin Servers

VARIABLES
    dir,      \* the files of the directory; 0 is metadata.bin, i is shard i
    saver,    \* the save that is running
    loader,   \* the load that is running
    server,   \* the PirServer created from the last load that succeeded
    settled,  \* ghost: the last save, if it returned OK and none began since
    refused   \* ghost: what was settled when the last load was refused

vars == <<dir, saver, loader, server, settled, refused>>

\* Without a second dimension the metadata is an empty message.
Length(file) == IF file = 0 /\ ~HasSecondDim THEN 0 ELSE Blocks

-----------------------------------------------------------------------------
(* Saving *)

\* lost says whether the end of a file went missing without anybody noticing.
BeginSave(gen) ==
    /\ saver = None
    /\ saver' = [gen |-> gen, file |-> 0, open |-> FALSE, lost |-> FALSE]
    /\ settled' = None
    /\ loader' = IF loader = None THEN None ELSE [loader EXCEPT !.since = None]
    /\ UNCHANGED <<dir, server, refused>>

\* Files that exist are kept as they are.
SlipOpenFile ==
    /\ saver # None /\ ~saver.open
    /\ dir' = IF dir[saver.file] = None
              THEN [dir EXCEPT ![saver.file] = <<>>] ELSE dir
    /\ saver' = [saver EXCEPT !.open = TRUE]
    /\ UNCHANGED <<loader, server, settled, refused>>

\* SetFileContents opens the file in place and truncates it.
OpenFile ==
    /\ saver # None /\ ~saver.open
    /\ dir' = [dir EXCEPT ![saver.file] = <<>>]
    /\ saver' = [saver EXCEPT !.open = TRUE]
    /\ UNCHANGED <<loader, server, settled, refused>>

WriteBlock ==
    /\ saver # None /\ saver.open
    /\ Len(dir[saver.file]) < Length(saver.file)
    /\ dir' = [dir EXCEPT ![saver.file] = Append(@, saver.gen)]
    /\ UNCHANGED <<saver, loader, server, settled, refused>>

\* The last shard forgotten.
SlipCloseFile ==
    /\ saver # None /\ saver.open
    /\ LET lost == saver.lost \/ Len(dir[saver.file]) < Length(saver.file)
       IN  IF saver.file = NumShards - 1
           THEN /\ saver' = None
                /\ settled' = [gen |-> saver.gen, lost |-> lost]
           ELSE /\ saver' = [saver EXCEPT !.file = @ + 1, !.open = FALSE, !.lost = lost]
                /\ UNCHANGED settled
    /\ UNCHANGED <<dir, loader, server, refused>>

\* SetFileContents returns OK and the save goes on to the next file.  The
\* stream is found good before it is closed, so that what is still buffered
\* may fail to reach the file without an error.  Only now that the metadata is
\* written does the save look at the number of shards.
CloseFile ==
    /\ saver # None /\ saver.open
    /\ LET lost == saver.lost \/ Len(dir[saver.file]) < Length(saver.file)
       IN  \/ /\ saver.file = NumShards
              /\ saver' = None
              /\ settled' = [gen |-> saver.gen, lost |-> lost]
           \/ /\ saver.file < NumShards
              /\ saver.gen \notin Misshapen
              /\ saver' = [saver EXCEPT !.file = @ + 1, !.open = FALSE, !.lost = lost]
              /\ UNCHANGED settled
           \/ /\ saver.file = 0
              /\ saver.gen \in Misshapen
              /\ saver' = None
              /\ UNCHANGED settled
    /\ UNCHANGED <<dir, loader, server, refused>>

\* The process dies, or SetFileContents returns an error.  Either way the files
\* stay as they are.
AbortSave ==
    /\ saver # None
    /\ saver' = None
    /\ UNCHANGED <<dir, loader, server, settled, refused>>

-----------------------------------------------------------------------------
(* Loading *)

\* A server process starts, in place of the one before.
BeginLoad ==
    /\ loader = None
    /\ loader' = [parts |-> <<>>, size |-> None, got |-> <<>>, since |-> settled]
    /\ server' = None
    /\ refused' = None
    /\ UNCHANGED <<dir, saver, settled>>

\* The file that is read next; loader.parts[i] is the content of file i - 1.
Reading == Len(loader.parts)

RefuseLoad ==
    /\ loader' = None
    /\ refused' = loader.since
    /\ UNCHANGED <<dir, saver, server, settled>>

\* GetFileContents asks for the size first.
OpenRead ==
    /\ loader # None /\ loader.size = None /\ Reading \in Files
    /\ \/ /\ dir[Reading] = None
          /\ RefuseLoad
       \/ /\ dir[Reading] # None
          /\ loader' = [loader EXCEPT !.size = Len(dir[Reading])]
          /\ UNCHANGED <<dir, saver, server, settled, refused>>

\* It then reads that many bytes, from a file that may be written meanwhile.
ReadBlock ==
    /\ loader # None /\ loader.size # None
    /\ Len(loader.got) < loader.size
    /\ LET next == Len(loader.got) + 1
       IN  \/ /\ next > Len(dir[Reading])
              /\ RefuseLoad
           \/ /\ next <= Len(dir[Reading])
              /\ loader' = [loader EXCEPT !.got = Append(@, dir[Reading][next])]
              /\ UNCHANGED <<dir, saver, server, settled, refused>>

\* ParseFromString: a message that ends early may be refused.
CloseRead ==
    /\ loader # None /\ loader.size # None
    /\ Len(loader.got) = loader.size
    /\ \/ /\ loader.size < Length(Reading)
          /\ RefuseLoad
       \/ /\ loader' = [loader EXCEPT !.parts = Append(@, loader.got),
                                      !.size = None, !.got = <<>>]
          /\ UNCHANGED <<dir, saver, server, settled, refused>>

\* PirServer::Create counts the second-dimension polynomials, and the rows,
\* columns and outputs of each shard.
Complete(parts) == \A file \in Files : Len(parts[file + 1]) = Length(file)

CreateServer ==
    /\ loader # None /\ loader.size = None /\ Reading \notin Files
    /\ \/ /\ ~Complete(loader.parts)
          /\ RefuseLoad
       \/ /\ Complete(loader.parts)
          /\ server' = [parts |-> loader.parts, since |-> loader.since]
          /\ loader' = None
          /\ UNCHANGED <<dir, saver, settled, refused>>

-----------------------------------------------------------------------------
Init ==
    /\ dir = [file \in Files |-> None]
    /\ saver = None
    /\ loader = None
    /\ server = None
    /\ settled = None
    /\ refused = None

Save ==
    \/ \E gen \in Generations : BeginSave(gen)
    \/ OpenFile \/ WriteBlock \/ CloseFile \/ AbortSave

Load == BeginLoad \/ OpenRead \/ ReadBlock \/ CloseRead \/ CreateServer

Next == Save \/ Load

Spec == Init /\ [][Next]_vars

-----------------------------------------------------------------------------
(* What the server answers *)

\* The server read a whole shard of one generation.
Holds(shard, gen) == server.parts[shard + 1] = [i \in 1 .. Blocks |-> gen]

\* The second-dimension samples depend on the seed only.
SecondDimUnder(seed) ==
    /\ Len(server.parts[1]) = Length(0)
    /\ \A i \in DOMAIN server.parts[1] : SeedOf[server.parts[1][i]] = seed

\* The shard of its entry that a fresh client under a seed decrypts.
ShardAnswer(shard, seed) ==
    IF SecondDimUnder(seed) /\ \E gen \in Generations :
                                  SeedOf[gen] = seed /\ Holds(shard, gen)
    THEN CHOOSE gen \in Generations : Holds(shard, gen)
    ELSE Garbage

Answer(seed) == [shard \in 1 .. NumShards |-> ShardAnswer(shard, seed)]

-----------------------------------------------------------------------------
(* Properties *)

\* A load that began after a save returned OK, with no save since, gives a
\* server that answers from that generation alone - clients under its seed get
\* every shard of their entry, the others nothing - whatever interrupted or
\* refused saves had left behind before.
SettledAnswers ==
    server # None /\ server.since # None =>
        \A seed \in Seeds :
            Answer(seed) = [shard \in 1 .. NumShards |->
                IF SeedOf[server.since.gen] = seed THEN server.since.gen ELSE Garbage]

\* Such a load is refused only if the end of a file went missing unnoticed.
SettledLoads ==
    refused # None => refused.lost

\* "Holds preprocessing artifacts derived from the database": the entry that a
\* client puts together from its shards is of one database.
OneDatabase ==
    server # None =>
        \A seed \in Seeds, s1, s2 \in 1 .. NumShards :
            {Answer(seed)[s1], Answer(seed)[s2]} \subseteq Generations =>
                Answer(seed)[s1] = Answer(seed)[s2]
=============================================================================

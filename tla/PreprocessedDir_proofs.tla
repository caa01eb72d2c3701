------------------------ MODULE PreprocessedDir_proofs ------------------------
(***************************************************************************)
(* Proofs about PreprocessedDir, for every value of the constants: any     *)
(* number of shards, blocks, generations and seeds, saves that stop        *)
(* anywhere and loads that run meanwhile.                                  *)
(***************************************************************************)
EXTENDS PreprocessedDir, SequenceTheorems, TLAPS

TypeOK ==
    /\ dir \in [Files -> Maybe(Contents)]
    /\ saver \in Maybe(Savers)
    /\ loader \in Maybe(Loaders)
    /\ server \in Maybe(Servers)
    /\ settled \in Maybe(Outcomes)
    /\ refused \in Maybe(Outcomes)

\* A file that a save of that generation has written, or begun to.
WrittenFrom(gen, file, content) ==
    /\ content \in Contents
    /\ Len(content) <= Length(file)
    /\ \A i \in 1 .. Len(content) : content[i] = gen

\* One that it has left behind, at its full length unless an end went missing.
LeftBy(gen, file, content, lost) ==
    /\ WrittenFrom(gen, file, content)
    /\ ~lost => Len(content) = Length(file)

\* A save that runs has left the files behind it and is at the one it has open.
SaveInOrder ==
    saver # None =>
        /\ settled = None
        /\ \A file \in Files :
               file < saver.file => LeftBy(saver.gen, file, dir[file], saver.lost)
        /\ saver.open => WrittenFrom(saver.gen, saver.file, dir[saver.file])

\* A save that has settled has left all of them.
SettledOnDisk ==
    settled # None =>
        \A file \in Files : LeftBy(settled.gen, file, dir[file], settled.lost)

\* A load that began when a save had settled, with none begun since, has read
\* what is still on the disk.
LoadInOrder ==
    loader # None =>
        /\ Len(loader.parts) <= NumShards + 1
        /\ loader.size = None => loader.got = <<>>
        /\ loader.size # None =>
               /\ Reading \in Files /\ dir[Reading] # None
               /\ Len(loader.got) <= loader.size
        /\ loader.since # None =>
               /\ loader.since = settled
               /\ \A file \in Files : file < Reading => loader.parts[file + 1] = dir[file]
               /\ loader.size # None =>
                      /\ loader.size = Len(dir[Reading])
                      /\ \A i \in 1 .. Len(loader.got) : loader.got[i] = dir[Reading][i]

\* A server is whole, and of one generation if its load began in such a state.
ServerInOrder ==
    server # None =>
        /\ Complete(server.parts)
        /\ server.since # None =>
               \A file \in Files : WrittenFrom(server.since.gen, file, server.parts[file + 1])

Inv ==
    /\ TypeOK
    /\ SaveInOrder /\ SettledOnDisk
    /\ LoadInOrder /\ ServerInOrder
    /\ SettledLoads

-----------------------------------------------------------------------------
(* Lemmas *)

LEMMA Sizes ==
    /\ NumShards \in Nat \ {0} /\ Blocks \in Nat \ {0}
    /\ 0 \in Files /\ NumShards \in Files /\ Files \subseteq Nat
    /\ \A file : Length(file) \in Nat
    /\ \A file \in Files : file # 0 => Length(file) = Blocks
  BY DirAssumption DEF Files, Length

\* Whatever exists is not None.
LEMMA Present ==
    /\ None \notin Nat /\ None \notin Contents
    /\ None \notin Savers /\ None \notin Outcomes
    /\ None \notin Loaders /\ None \notin Servers
  BY DirAssumption

-----------------------------------------------------------------------------
(* Saving *)

LEMMA BeginSaveInv ==
    ASSUME Inv, NEW gen \in Generations, BeginSave(gen)
    PROVE  Inv'
<1>1. /\ saver = None /\ settled' = None
      /\ saver' = [gen |-> gen, file |-> 0, open |-> FALSE, lost |-> FALSE]
      /\ UNCHANGED <<dir, server, refused>>
      /\ loader = None => loader' = None
      /\ loader # None => loader' = [loader EXCEPT !.since = None]
  BY DEF BeginSave
<1>2. saver' \in Savers
  BY <1>1, Sizes DEF Savers
<1>3. ASSUME loader # None
      PROVE  /\ loader' \in Loaders /\ loader'.since = None
             /\ loader'.parts = loader.parts /\ loader'.got = loader.got
             /\ loader'.size = loader.size
  BY <1>1, <1>3 DEF Inv, TypeOK, Loaders, Maybe
<1>4. TypeOK'
  BY <1>1, <1>2, <1>3 DEF Inv, TypeOK, Maybe
<1>5. SaveInOrder'
  <2>1. saver'.file = 0 /\ ~saver'.open /\ \A file \in Files : ~(file < 0)
    BY <1>1, Sizes
  <2> QED BY <1>1, <2>1 DEF SaveInOrder
<1>6. SettledOnDisk'
  BY <1>1 DEF SettledOnDisk
<1>7. LoadInOrder'
  BY <1>1, <1>3 DEF Inv, LoadInOrder, Reading
<1>8. ServerInOrder' /\ SettledLoads'
  BY <1>1 DEF Inv, ServerInOrder, SettledLoads
<1> QED BY <1>4, <1>5, <1>6, <1>7, <1>8 DEF Inv

\* A running save, and what holds because it runs.
LEMMA Running ==
    ASSUME Inv, saver # None
    PROVE  /\ saver \in Savers /\ saver.file \in Files /\ saver.gen \in Generations
           /\ settled = None
           /\ loader # None => loader.since = None
  BY DEF Inv, TypeOK, Maybe, Savers, SaveInOrder, LoadInOrder

\* Steps that change one file of a running save, and no load.
LEMMA WriteInv ==
    ASSUME Inv, saver # None, NEW content \in Contents,
           WrittenFrom(saver.gen, saver.file, content),
           dir' = [dir EXCEPT ![saver.file] = content],
           saver' = [saver EXCEPT !.open = TRUE],
           UNCHANGED <<loader, server, settled, refused>>
    PROVE  Inv'
<1>1. /\ saver \in Savers /\ saver.file \in Files /\ saver' \in Savers
      /\ saver'.gen = saver.gen /\ saver'.file = saver.file /\ saver'.lost = saver.lost
      /\ settled = None
      /\ loader # None => loader.since = None
      /\ saver.file \in Nat
  BY Running, Sizes DEF Savers
<1>2. /\ dir' \in [Files -> Maybe(Contents)]
      /\ dir'[saver.file] = content
      /\ \A file \in Files : file # saver.file => dir'[file] = dir[file]
  BY <1>1 DEF Inv, TypeOK, Maybe
<1>3. TypeOK'
  BY <1>1, <1>2 DEF Inv, TypeOK, Maybe
<1>4. SaveInOrder'
  BY <1>1, <1>2, Sizes DEF Inv, SaveInOrder
<1>5. SettledOnDisk' /\ SettledLoads' /\ ServerInOrder'
  BY <1>1 DEF Inv, SettledOnDisk, SettledLoads, ServerInOrder
<1>6. LoadInOrder'
  BY <1>1, <1>2, Present DEF Inv, LoadInOrder, Reading
<1> QED BY <1>3, <1>4, <1>5, <1>6 DEF Inv

LEMMA OpenFileInv ==
    ASSUME Inv, OpenFile
    PROVE  Inv'
<1>1. <<>> \in Contents /\ Len(<<>>) = 0
  BY DEF Contents
<1>2. WrittenFrom(saver.gen, saver.file, <<>>)
  BY <1>1, Sizes DEF WrittenFrom
<1> QED BY <1>1, <1>2, WriteInv DEF OpenFile

LEMMA WriteBlockInv ==
    ASSUME Inv, WriteBlock
    PROVE  Inv'
<1> DEFINE old == dir[saver.file]
           new == Append(old, saver.gen)
<1>1. /\ saver \in Savers /\ saver.file \in Files /\ saver.gen \in Generations
      /\ saver # None /\ saver.open
  BY Running DEF WriteBlock
<1>2. WrittenFrom(saver.gen, saver.file, old) /\ Len(old) < Length(saver.file)
  BY <1>1 DEF Inv, SaveInOrder, WriteBlock
<1>3. /\ new \in Contents /\ Len(new) = Len(old) + 1 /\ Len(old) \in Nat
      /\ \A i \in 1 .. Len(old) : new[i] = old[i]
      /\ new[Len(old) + 1] = saver.gen
  BY <1>1, <1>2 DEF WrittenFrom, Contents
<1>4. WrittenFrom(saver.gen, saver.file, new)
  BY <1>2, <1>3, Sizes DEF WrittenFrom
<1>5. saver' = [saver EXCEPT !.open = TRUE]
  BY <1>1 DEF Savers, WriteBlock
<1>6. dir' = [dir EXCEPT ![saver.file] = new] /\ UNCHANGED <<loader, server, settled, refused>>
  BY DEF WriteBlock
<1> HIDE DEF new
<1> QED BY <1>1, <1>3, <1>4, <1>5, <1>6, WriteInv

LEMMA CloseFileInv ==
    ASSUME Inv, CloseFile
    PROVE  Inv'
<1> DEFINE lost == saver.lost \/ Len(dir[saver.file]) < Length(saver.file)
<1>1. /\ saver \in Savers /\ saver.file \in Files /\ saver.gen \in Generations
      /\ saver # None /\ saver.open /\ saver.lost \in BOOLEAN
      /\ settled = None
      /\ loader # None => loader.since = None
  BY Running DEF CloseFile, Savers
<1>2. UNCHANGED <<dir, loader, server, refused>>
  BY DEF CloseFile
<1>3. WrittenFrom(saver.gen, saver.file, dir[saver.file])
  BY <1>1 DEF Inv, SaveInOrder
<1>4. Len(dir[saver.file]) \in Nat /\ Length(saver.file) \in Nat
  BY <1>3, Sizes DEF WrittenFrom, Contents
<1>5. LeftBy(saver.gen, saver.file, dir[saver.file], lost)
  BY <1>3, <1>4 DEF LeftBy, WrittenFrom
<1>6. \A file \in Files : file <= saver.file => LeftBy(saver.gen, file, dir[file], lost)
  <2> SUFFICES ASSUME NEW file \in Files, file < saver.file
               PROVE  LeftBy(saver.gen, file, dir[file], lost)
    BY <1>1, <1>5, Sizes DEF Files
  <2>1. LeftBy(saver.gen, file, dir[file], saver.lost)
    BY <1>1 DEF Inv, SaveInOrder
  <2> QED BY <2>1 DEF LeftBy
<1> HIDE DEF lost
<1>7. ServerInOrder' /\ SettledLoads'
  BY <1>2 DEF Inv, ServerInOrder, SettledLoads
<1>8. LoadInOrder'
  BY <1>1, <1>2 DEF Inv, LoadInOrder, Reading
<1>9. lost \in BOOLEAN
  BY DEF lost
<1>10. CASE /\ saver.file = NumShards /\ saver' = None
            /\ settled' = [gen |-> saver.gen, lost |-> lost]
  <2>1. settled' \in Outcomes
    BY <1>1, <1>9, <1>10 DEF Outcomes
  <2>2. TypeOK'
    BY <1>2, <1>10, <2>1 DEF Inv, TypeOK, Maybe
  <2>3. SettledOnDisk'
    BY <1>2, <1>6, <1>10 DEF SettledOnDisk, Files
  <2>4. SaveInOrder'
    BY <1>10 DEF SaveInOrder
  <2> QED BY <1>7, <1>8, <2>2, <2>3, <2>4 DEF Inv
<1>11. CASE /\ saver.file < NumShards
            /\ saver' = [saver EXCEPT !.file = @ + 1, !.open = FALSE, !.lost = lost]
            /\ UNCHANGED settled
  <2>1. /\ saver' \in Savers /\ saver'.file = saver.file + 1 /\ ~saver'.open
        /\ saver'.lost = lost /\ saver'.gen = saver.gen
    <3>1. saver.file + 1 \in Files
      BY <1>1, <1>11, Sizes DEF Files
    <3> QED BY <1>1, <1>9, <1>11, <3>1 DEF Savers
  <2>2. TypeOK'
    BY <1>2, <1>11, <2>1 DEF Inv, TypeOK, Maybe
  <2>3. SaveInOrder'
    BY <1>1, <1>2, <1>6, <1>11, <2>1, Sizes DEF SaveInOrder
  <2>4. SettledOnDisk'
    BY <1>1, <1>11 DEF SettledOnDisk
  <2> QED BY <1>7, <1>8, <2>2, <2>3, <2>4 DEF Inv
<1>12. CASE saver' = None /\ UNCHANGED settled
  <2>1. TypeOK'
    BY <1>2, <1>12 DEF Inv, TypeOK, Maybe
  <2>2. SaveInOrder' /\ SettledOnDisk'
    BY <1>1, <1>12 DEF SaveInOrder, SettledOnDisk
  <2> QED BY <1>7, <1>8, <2>1, <2>2 DEF Inv
<1> QED BY <1>10, <1>11, <1>12 DEF CloseFile, lost

LEMMA AbortSaveInv ==
    ASSUME Inv, AbortSave
    PROVE  Inv'
  BY DEF AbortSave, Inv, TypeOK, Maybe, SaveInOrder, SettledOnDisk, LoadInOrder, Reading,
         ServerInOrder, SettledLoads

-----------------------------------------------------------------------------
(* Loading *)

\* A load that is refused: of what had settled before it only something that
\* had lost an end.
LEMMA RefuseLoadInv ==
    ASSUME Inv, loader # None, RefuseLoad, loader.since # None => loader.since.lost
    PROVE  Inv'
<1>1. /\ loader' = None /\ refused' = loader.since
      /\ UNCHANGED <<dir, saver, server, settled>>
      /\ loader.since \in Maybe(Outcomes)
  BY DEF Inv, TypeOK, RefuseLoad, Loaders, Maybe
<1>2. TypeOK'
  BY <1>1 DEF Inv, TypeOK, Maybe
<1>3. SaveInOrder' /\ SettledOnDisk' /\ LoadInOrder' /\ ServerInOrder' /\ SettledLoads'
  BY <1>1 DEF Inv, SaveInOrder, SettledOnDisk, LoadInOrder, ServerInOrder, SettledLoads
<1> QED BY <1>2, <1>3 DEF Inv

\* A load that goes on.
LEMMA AdvanceInv ==
    ASSUME Inv, loader' \in Loaders, LoadInOrder',
           UNCHANGED <<dir, saver, server, settled, refused>>
    PROVE  Inv'
  BY DEF Inv, TypeOK, Maybe, SaveInOrder, SettledOnDisk, ServerInOrder, SettledLoads

LEMMA BeginLoadInv ==
    ASSUME Inv, BeginLoad
    PROVE  Inv'
<1>1. /\ loader' = [parts |-> <<>>, size |-> None, got |-> <<>>, since |-> settled]
      /\ server' = None /\ refused' = None /\ UNCHANGED <<dir, saver, settled>>
  BY DEF BeginLoad
<1>2. <<>> \in Contents /\ <<>> \in Seq(Contents) /\ Len(<<>>) = 0
  BY DEF Contents
<1>3. loader' \in Loaders
  BY <1>1, <1>2 DEF Inv, TypeOK, Loaders, Maybe
<1>4. TypeOK'
  BY <1>1, <1>3 DEF Inv, TypeOK, Maybe
<1>5. LoadInOrder'
  BY <1>1, <1>2, Sizes DEF LoadInOrder, Reading
<1>6. SaveInOrder' /\ SettledOnDisk' /\ ServerInOrder' /\ SettledLoads'
  BY <1>1 DEF Inv, SaveInOrder, SettledOnDisk, ServerInOrder, SettledLoads
<1> QED BY <1>4, <1>5, <1>6 DEF Inv

\* A running load, and the file it reads if nothing was saved meanwhile.
LEMMA Loading ==
    ASSUME Inv, loader # None
    PROVE  /\ loader \in Loaders /\ Reading \in Nat /\ Reading <= NumShards + 1
           /\ loader.parts \in Seq(Contents) /\ loader.got \in Contents
           /\ loader.size \in Maybe(Nat)
           /\ Reading \in Files /\ loader.since # None =>
                  /\ LeftBy(loader.since.gen, Reading, dir[Reading], loader.since.lost)
                  /\ dir[Reading] # None
<1>1. /\ loader \in Loaders /\ loader.parts \in Seq(Contents) /\ loader.got \in Contents
      /\ loader.size \in Maybe(Nat)
  BY DEF Inv, TypeOK, Maybe, Loaders
<1>2. Reading \in Nat /\ Reading <= NumShards + 1
  BY <1>1 DEF Inv, LoadInOrder, Reading
<1>3. ASSUME Reading \in Files, loader.since # None
      PROVE  /\ LeftBy(loader.since.gen, Reading, dir[Reading], loader.since.lost)
             /\ dir[Reading] # None
  BY <1>3, Present DEF Inv, LoadInOrder, SettledOnDisk, LeftBy, WrittenFrom
<1> QED BY <1>1, <1>2, <1>3

LEMMA OpenReadInv ==
    ASSUME Inv, OpenRead
    PROVE  Inv'
<1>1. loader # None /\ loader.size = None /\ Reading \in Files
  BY DEF OpenRead
<1>2. CASE dir[Reading] = None /\ RefuseLoad
  BY <1>1, <1>2, Loading, RefuseLoadInv
<1>3. CASE /\ dir[Reading] # None
           /\ loader' = [loader EXCEPT !.size = Len(dir[Reading])]
           /\ UNCHANGED <<dir, saver, server, settled, refused>>
  <2>1. dir[Reading] \in Contents /\ Len(dir[Reading]) \in Nat
    BY <1>1, <1>3 DEF Inv, TypeOK, Maybe, Contents
  <2>2. /\ loader' \in Loaders /\ loader'.size = Len(dir[Reading])
        /\ loader'.parts = loader.parts /\ loader'.got = loader.got
        /\ loader'.since = loader.since
    BY <1>1, <1>3, <2>1, Loading DEF Loaders, Maybe
  <2>3. Len(loader.got) <= Len(dir[Reading])
    <3>1. loader.got = <<>>
      BY <1>1 DEF Inv, LoadInOrder
    <3> QED BY <2>1, <3>1
  <2>4. \A i \in 1 .. Len(loader.got) : loader.got[i] = dir[Reading][i]
    <3>1. loader.got = <<>>
      BY <1>1 DEF Inv, LoadInOrder
    <3> QED BY <3>1
  <2>5. LoadInOrder'
    BY <1>1, <1>3, <2>1, <2>2, <2>3, <2>4, Present DEF Inv, LoadInOrder, Reading
  <2> QED BY <1>3, <2>2, <2>5, AdvanceInv
<1> QED BY <1>1, <1>2, <1>3 DEF OpenRead

LEMMA ReadBlockInv ==
    ASSUME Inv, ReadBlock
    PROVE  Inv'
<1> DEFINE next == Len(loader.got) + 1
<1>1. /\ loader # None /\ loader.size # None /\ Len(loader.got) < loader.size
      /\ loader \in Loaders /\ loader.got \in Contents /\ loader.size \in Nat
      /\ Len(loader.got) \in Nat
  BY Loading DEF ReadBlock, Maybe, Contents
<1>2. /\ Reading \in Files /\ dir[Reading] \in Contents
      /\ Len(dir[Reading]) \in Nat
  BY <1>1 DEF Inv, LoadInOrder, TypeOK, Maybe, Contents
<1>3. CASE next > Len(dir[Reading]) /\ RefuseLoad
  <2>1. loader.since = None
    BY <1>1, <1>2, <1>3 DEF Inv, LoadInOrder
  <2> QED BY <1>1, <1>3, <2>1, RefuseLoadInv
<1>4. CASE /\ next <= Len(dir[Reading])
           /\ loader' = [loader EXCEPT !.got = Append(@, dir[Reading][next])]
           /\ UNCHANGED <<dir, saver, server, settled, refused>>
  <2> DEFINE new == Append(loader.got, dir[Reading][next])
  <2>1. dir[Reading][next] \in Generations
    BY <1>1, <1>2, <1>4 DEF Contents
  <2>2. /\ new \in Contents /\ Len(new) = next
        /\ \A i \in 1 .. Len(loader.got) : new[i] = loader.got[i]
        /\ new[next] = dir[Reading][next]
    BY <1>1, <2>1 DEF Contents
  <2> HIDE DEF new
  <2>3. /\ loader' \in Loaders /\ loader'.got = new
        /\ loader'.parts = loader.parts /\ loader'.size = loader.size
        /\ loader'.since = loader.since
    BY <1>1, <1>4, <2>2 DEF Loaders, new
  <2>4. Len(new) <= loader.size
    BY <1>1, <2>2
  <2>5. \A i \in 1 .. Len(new) : i = next \/ i \in 1 .. Len(loader.got)
    BY <1>1, <2>2
  <2>6. LoadInOrder'
    BY <1>1, <1>2, <1>4, <2>2, <2>3, <2>4, <2>5 DEF Inv, LoadInOrder, Reading
  <2> QED BY <1>4, <2>3, <2>6, AdvanceInv
<1> QED BY <1>3, <1>4 DEF ReadBlock

LEMMA CloseReadInv ==
    ASSUME Inv, CloseRead
    PROVE  Inv'
<1>1. /\ loader # None /\ loader.size # None /\ Len(loader.got) = loader.size
      /\ loader \in Loaders /\ loader.got \in Contents /\ loader.size \in Nat
      /\ loader.parts \in Seq(Contents) /\ Reading = Len(loader.parts)
  BY Loading DEF CloseRead, Maybe, Contents, Reading
<1>2. /\ Reading \in Files /\ Reading \in Nat /\ dir[Reading] \in Contents
      /\ Reading + 1 <= NumShards + 1
  BY <1>1, Sizes DEF Inv, LoadInOrder, TypeOK, Maybe, Files
<1>3. CASE loader.size < Length(Reading) /\ RefuseLoad
  <2>1. loader.since # None => loader.since.lost
    <3> SUFFICES ASSUME loader.since # None, ~loader.since.lost PROVE FALSE
      OBVIOUS
    <3>1. LeftBy(loader.since.gen, Reading, dir[Reading], loader.since.lost)
      BY <1>1, <1>2, Loading
    <3>2. loader.size = Len(dir[Reading])
      BY <1>1 DEF Inv, LoadInOrder
    <3> QED BY <1>1, <1>3, <3>1, <3>2, Sizes DEF LeftBy
  <2> QED BY <1>1, <1>3, <2>1, RefuseLoadInv
<1>4. CASE /\ loader' = [loader EXCEPT !.parts = Append(@, loader.got),
                                       !.size = None, !.got = <<>>]
           /\ UNCHANGED <<dir, saver, server, settled, refused>>
  <2> DEFINE new == Append(loader.parts, loader.got)
  <2>1. /\ new \in Seq(Contents) /\ Len(new) = Reading + 1
        /\ \A i \in 1 .. Reading : new[i] = loader.parts[i]
        /\ new[Reading + 1] = loader.got
    BY <1>1
  <2>2. <<>> \in Contents /\ Len(<<>>) = 0
    BY DEF Contents
  <2> HIDE DEF new
  <2>3. /\ loader' \in Loaders /\ loader'.parts = new /\ loader'.size = None
        /\ loader'.got = <<>> /\ loader'.since = loader.since
    BY <1>1, <1>4, <2>1, <2>2 DEF Loaders, Maybe, new
  <2>4. loader.since # None => loader.got = dir[Reading]
    <3> SUFFICES ASSUME loader.since # None PROVE loader.got = dir[Reading]
      OBVIOUS
    <3>1. /\ Len(loader.got) = Len(dir[Reading])
          /\ \A i \in 1 .. Len(loader.got) : loader.got[i] = dir[Reading][i]
      BY <1>1 DEF Inv, LoadInOrder
    <3> QED BY <1>1, <1>2, <3>1, SeqEqual DEF Contents
  <2>5. \A file \in Files : file < Reading + 1 =>
            file = Reading \/ (file < Reading /\ file + 1 \in 1 .. Reading)
    BY <1>2, Sizes
  <2>6. LoadInOrder'
    <3>1. Reading' = Reading + 1 /\ Reading' <= NumShards + 1
      BY <1>2, <2>1, <2>3 DEF Reading
    <3>2. ASSUME loader.since # None
          PROVE  /\ loader.since = settled
                 /\ \A file \in Files : file < Reading + 1 => new[file + 1] = dir[file]
      BY <1>1, <2>1, <2>4, <2>5, <3>2 DEF Inv, LoadInOrder
    <3> QED BY <1>4, <2>3, <3>1, <3>2 DEF LoadInOrder, Reading
  <2> QED BY <1>4, <2>3, <2>6, AdvanceInv
<1> QED BY <1>3, <1>4 DEF CloseRead

LEMMA CreateServerInv ==
    ASSUME Inv, CreateServer
    PROVE  Inv'
<1>1. /\ loader # None /\ loader.size = None /\ Reading \notin Files
      /\ loader \in Loaders /\ loader.parts \in Seq(Contents)
      /\ loader.since \in Maybe(Outcomes)
  BY Loading DEF CreateServer, Loaders
<1>2. Len(loader.parts) = NumShards + 1 /\ Reading = NumShards + 1
  BY <1>1, Loading, Sizes DEF Files, Reading
<1>3. ASSUME loader.since # None, NEW file \in Files
      PROVE  LeftBy(loader.since.gen, file, loader.parts[file + 1], loader.since.lost)
  <2>1. file < Reading
    BY <1>2, Sizes DEF Files
  <2>2. loader.since = settled /\ loader.parts[file + 1] = dir[file]
    BY <1>1, <1>3, <2>1 DEF Inv, LoadInOrder
  <2> QED BY <1>3, <2>2 DEF Inv, SettledOnDisk
<1>4. CASE ~Complete(loader.parts) /\ RefuseLoad
  <2>1. loader.since # None => loader.since.lost
    BY <1>3, <1>4 DEF Complete, LeftBy
  <2> QED BY <1>1, <1>4, <2>1, RefuseLoadInv
<1>5. CASE /\ Complete(loader.parts)
           /\ server' = [parts |-> loader.parts, since |-> loader.since]
           /\ loader' = None /\ UNCHANGED <<dir, saver, settled, refused>>
  <2>1. server' \in Servers
    BY <1>1, <1>5 DEF Servers
  <2>2. TypeOK'
    BY <1>5, <2>1 DEF Inv, TypeOK, Maybe
  <2>3. /\ server'.parts = loader.parts /\ server'.since = loader.since
    BY <1>5
  <2>4. ServerInOrder'
    BY <1>3, <1>5, <2>3 DEF ServerInOrder, LeftBy, Complete
  <2>5. SaveInOrder' /\ SettledOnDisk' /\ LoadInOrder' /\ SettledLoads'
    BY <1>5 DEF Inv, SaveInOrder, SettledOnDisk, LoadInOrder, SettledLoads
  <2> QED BY <2>2, <2>4, <2>5 DEF Inv
<1> QED BY <1>4, <1>5 DEF CreateServer

-----------------------------------------------------------------------------
(* The theorems *)

\* The inductive invariant: whatever saves have left behind, a save that has
\* settled left every file, and a load that began then reads those files only.
THEOREM Invariant == Spec => []Inv
<1>1. Init => Inv
  BY Sizes DEF Init, Inv, TypeOK, Maybe, SaveInOrder, SettledOnDisk, LoadInOrder, ServerInOrder,
               SettledLoads
<1>2. Inv /\ [Next]_vars => Inv'
  <2> SUFFICES ASSUME Inv, [Next]_vars PROVE Inv'
    OBVIOUS
  <2>1. CASE Save
    BY <2>1, BeginSaveInv, OpenFileInv, WriteBlockInv, CloseFileInv, AbortSaveInv DEF Save
  <2>2. CASE Load
    BY <2>2, BeginLoadInv, OpenReadInv, ReadBlockInv, CloseReadInv, CreateServerInv DEF Load
  <2>3. CASE UNCHANGED vars
    BY <2>3 DEF vars, Inv, TypeOK, SaveInOrder, SettledOnDisk, LoadInOrder, Reading,
                ServerInOrder, SettledLoads
  <2> QED BY <2>1, <2>2, <2>3 DEF Next
<1> QED BY <1>1, <1>2, PTL DEF Spec

\* A load that began after a save returned OK, with no save since, is refused
\* only if the end of a file went missing unnoticed.
THEOREM Loads == Spec => []SettledLoads
<1>1. Inv => SettledLoads
  BY DEF Inv
<1> QED BY <1>1, Invariant, PTL

\* What a server of one generation holds: every shard of that generation and of
\* no other, and the samples of its seed and of no other if it has any.
LEMMA OneGeneration ==
    ASSUME Inv, server # None, server.since # None
    PROVE  /\ server.since.gen \in Generations
           /\ \A shard \in 1 .. NumShards, gen \in Generations :
                  Holds(shard, gen) <=> gen = server.since.gen
           /\ SecondDimUnder(SeedOf[server.since.gen])
<1> DEFINE own == server.since.gen
<1>1. server \in Servers /\ own \in Generations
  BY DEF Inv, TypeOK, Servers, Maybe, Outcomes
<1>2. \A file \in Files : /\ WrittenFrom(own, file, server.parts[file + 1])
                          /\ Len(server.parts[file + 1]) = Length(file)
  BY DEF Inv, ServerInOrder, Complete
<1>3. ASSUME NEW shard \in 1 .. NumShards, NEW gen \in Generations
      PROVE  Holds(shard, gen) <=> gen = own
  <2> DEFINE part == server.parts[shard + 1]
  <2>1. shard \in Files /\ Length(shard) = Blocks
    BY Sizes DEF Files
  <2>2. /\ part \in Contents /\ Len(part) = Blocks
        /\ \A i \in 1 .. Blocks : part[i] = own
    BY <1>2, <2>1 DEF WrittenFrom
  <2>3. part = [i \in 1 .. Blocks |-> own]
    BY <2>2 DEF Contents
  <2>4. 1 \in 1 .. Blocks
    BY Sizes
  <2> QED BY <2>3, <2>4 DEF Holds
<1>4. SecondDimUnder(SeedOf[own])
  <2>1. 0 \in Files /\ 0 + 1 = 1
    BY Sizes
  <2>2. /\ Len(server.parts[1]) = Length(0)
        /\ server.parts[1] \in Contents
        /\ \A i \in 1 .. Len(server.parts[1]) : server.parts[1][i] = own
    BY <1>2, <2>1 DEF WrittenFrom
  <2> QED BY <2>2 DEF SecondDimUnder, Contents
<1> QED BY <1>1, <1>3, <1>4

\* Such a load gives a server that answers from that generation alone, whatever
\* interrupted or refused saves had left behind before.
THEOREM Answers == Spec => []SettledAnswers
<1>1. Inv => SettledAnswers
  <2> SUFFICES ASSUME Inv, server # None, server.since # None, NEW seed \in Seeds,
                      NEW shard \in 1 .. NumShards
               PROVE  ShardAnswer(shard, seed) = IF SeedOf[server.since.gen] = seed
                                                 THEN server.since.gen ELSE Garbage
    BY DEF SettledAnswers, Answer
  <2>1. CASE SeedOf[server.since.gen] = seed
    <3>1. SecondDimUnder(seed) /\ \E gen \in Generations : SeedOf[gen] = seed /\ Holds(shard, gen)
      BY <2>1, OneGeneration
    <3>2. (CHOOSE gen \in Generations : Holds(shard, gen)) = server.since.gen
      BY OneGeneration
    <3> QED BY <2>1, <3>1, <3>2 DEF ShardAnswer
  <2>2. CASE SeedOf[server.since.gen] # seed
    <3>1. ~\E gen \in Generations : SeedOf[gen] = seed /\ Holds(shard, gen)
      BY <2>2, OneGeneration
    <3> QED BY <2>2, <3>1 DEF ShardAnswer
  <2> QED BY <2>1, <2>2
<1> QED BY <1>1, Invariant, PTL

\* What a save that stops half-way can do at worst under a seed per save: the
\* entry that a client puts together is of one database, or has shards of noise.
THEOREM SeedPerSave ==
    ASSUME \A g1, g2 \in Generations : SeedOf[g1] = SeedOf[g2] => g1 = g2
    PROVE  Spec => []OneDatabase
<1>1. OneDatabase
  <2> SUFFICES ASSUME NEW seed \in Seeds,
                      NEW s1 \in 1 .. NumShards, NEW s2 \in 1 .. NumShards,
                      ShardAnswer(s1, seed) \in Generations,
                      ShardAnswer(s2, seed) \in Generations
               PROVE  ShardAnswer(s1, seed) = ShardAnswer(s2, seed)
    BY DEF OneDatabase, Answer
  <2>1. ASSUME NEW shard \in 1 .. NumShards, ShardAnswer(shard, seed) \in Generations
        PROVE  SeedOf[ShardAnswer(shard, seed)] = seed
    <3>1. PICK gen \in Generations : SeedOf[gen] = seed /\ Holds(shard, gen)
      BY <2>1, DirAssumption DEF ShardAnswer
    <3>2. ShardAnswer(shard, seed) = CHOOSE g \in Generations : Holds(shard, g)
      BY <2>1, DirAssumption DEF ShardAnswer
    <3>3. Holds(shard, ShardAnswer(shard, seed))
      BY <3>1, <3>2
    <3>4. 1 \in 1 .. Blocks
      BY Sizes
    <3>5. ShardAnswer(shard, seed) = gen
      BY <3>1, <3>3, <3>4 DEF Holds
    <3> QED BY <3>1, <3>5
  <2> QED BY <2>1
<1> QED BY <1>1, PTL
=============================================================================

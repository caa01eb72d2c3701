----------------------------- MODULE ServerFile -----------------------------
(***************************************************************************)
(* The file of a PirServer (pir_server.cc): what SaveToFile writes and     *)
(* what LoadFromBuffer makes of what it is given.                          *)
(*                                                                         *)
(* A file is a sequence of cells.  A cell is what one call of write        *)
(* writes: a number, or a whole vector.  Vectors stand for their contents; *)
(* only the words of the packing matrix are told apart, because a          *)
(* condensed matrix is taken to pieces when it is written and put together *)
(* again when it is read.                                                  *)
(***************************************************************************)
EXTENDS Integers, Sequences, SequencesExt

CONSTANTS
    Shards,        \* EntrySizeMultiple()
    Slices,        \* InterpolationDegree()
    Digits,        \* num_digits of the packing gadget
    SecondDim,     \* polynomials of second_dim_query_a_
    PackRows,      \* rows and columns of the combined packing matrix
    PackCols,
    PerWord,       \* entries of it in a word: 2 if MatCoeffType is int32_t, and 1 if not
    Nothing,       \* an empty vector
    Zeros,         \* a vector that was allocated and never read into
    Unknown,       \* memory that nobody initialised, or another's
    Refused,       \* a status that is not OK
    Undefined      \* a read through the data() of an empty vector

ASSUME FileAssumption ==
    /\ {Shards, Slices, Digits, PackRows, PackCols} \subseteq Nat \ {0}
    /\ PerWord \in {1, 2}
    /\ PackCols % PerWord = 0
    /\ SecondDim \in Nat

-----------------------------------------------------------------------------
(* Servers *)

Tag(db, part) == <<db, part>>

\* The packing matrix as it is stored: words of `per` entries, `phys` of them to
\* a row, of which `cols` entries are meant.
WordsOf(entries, per) ==
    [w \in 1 .. Len(entries) \div per |-> [k \in 1 .. per |-> entries[per * (w - 1) + k]]]

PackEntries(db) == [e \in 1 .. PackRows * PackCols |-> Tag(db, <<"entry", e>>)]

FreshPack(db) ==
    [rows  |-> PackRows, cols |-> PackCols, phys |-> PackCols \div PerWord, per |-> PerWord,
     words |-> WordsOf(PackEntries(db), PerWord)]

\* What PirServer::Create makes of the preprocessing of a database.
Fresh(db) ==
    [db     |-> [dims |-> <<1, 1, 1, 1>>,
                 data |-> Tag(db, "database")],
     pack   |-> FreshPack(db),
     outs   |-> [k \in 1 .. Shards |-> [i \in 1 .. Slices |->
                    [a |-> Tag(db, <<"a", k, i>>),
                     t |-> [j \in 1 .. Digits |-> Tag(db, <<"t", k, i, j>>)]]]],
     second |-> [j \in 1 .. SecondDim |-> Tag(db, <<"second", j>>)]]

\* Entry (r, c), both from 0, for a reader who takes a row to be that many words.
Entry(pack, width, r, c) ==
    LET w == r * width + c \div pack.per + 1
    IN  IF w <= Len(pack.words) THEN pack.words[w][(c % pack.per) + 1] ELSE Unknown

Entries(pack, width) ==
    [e \in 1 .. pack.rows * pack.cols |->
        Entry(pack, width, (e - 1) \div pack.cols, (e - 1) % pack.cols)]

\* CondensedMultiply goes by the number of columns; SaveToFile by phys, or takes
\* the data as they are if they are not condensed.
Multiplied(pack) == Entries(pack, pack.cols \div pack.per)

\* A mutation: always by the number of columns.
SlipSaved(pack) == Entries(pack, pack.cols)

Saved(pack) ==
    IF pack.per = 1 THEN [w \in DOMAIN pack.words |-> pack.words[w][1]]
    ELSE Entries(pack, pack.phys)

-----------------------------------------------------------------------------
(* SaveToFile *)

\* A length, then the data if there is any.
Vector(data) == IF data = Nothing THEN <<0>> ELSE <<1, data>>
Poly(data) == <<1, 1, data>>                       \* two lengths

Polys(polys) == <<Len(polys)>> \o FlattenSeq([j \in DOMAIN polys |-> Poly(polys[j])])
Slice(out) == Poly(out.a) \o Polys(out.t)
Shard(slices) == <<Len(slices)>> \o FlattenSeq([i \in DOMAIN slices |-> Slice(slices[i])])

DbCells(db) == db.dims \o Vector(db.data)

PackCells(pack) ==
    <<pack.rows, pack.cols, pack.phys, pack.per - 1, pack.cols, 1>>
        \o Vector(IF Saved(pack) = <<>> THEN Nothing ELSE Saved(pack))

OutputCells(outs) ==
    <<1, Len(outs)>> \o FlattenSeq([k \in DOMAIN outs |-> Shard(outs[k])])

Content(server) ==
    DbCells(server.db) \o PackCells(server.pack) \o OutputCells(server.outs)
        \o Polys(server.second)

-----------------------------------------------------------------------------
(* LoadFromBuffer *)

\* A read beyond the end fails, and leaves the zero that its destination was
\* initialised to; nothing looks at the failure until the end.  Buffers end
\* between two cells, so that every later read fails as well.
At(buffer, p) == IF p <= Len(buffer) THEN buffer[p] ELSE 0
DataAt(buffer, p) == IF p <= Len(buffer) THEN buffer[p] ELSE Zeros

\* Where the parts begin, going by the counts on the way.
AfterVector(buffer, p) == IF At(buffer, p) = 0 THEN p + 1 ELSE p + 2
AfterPolys(buffer, p) == p + 1 + 3 * At(buffer, p)
PolyStart(list, j) == list + 3 * (j - 1) + 1

PackStart(buffer) == AfterVector(buffer, 5)
OutputStart(buffer) == AfterVector(buffer, PackStart(buffer) + 6)

\* The slices of the shard at p begin at [0], [1], ...
SliceStarts(buffer, p) ==
    LET start[i \in 0 .. At(buffer, p)] ==
            IF i = 0 THEN p + 1 ELSE AfterPolys(buffer, start[i - 1] + 3)
    IN  start

ShardStarts(buffer) ==
    LET start[k \in 0 .. At(buffer, OutputStart(buffer) + 1)] ==
            IF k = 0 THEN OutputStart(buffer) + 2
            ELSE SliceStarts(buffer, start[k - 1])[At(buffer, start[k - 1])]
    IN  start

SecondStart(buffer) == ShardStarts(buffer)[At(buffer, OutputStart(buffer) + 1)]

\* Create refuses an empty polynomial; unpacking reads the bytes through the
\* data() of an empty vector if only their length was lost.
PolyAt(buffer, p) ==
    CASE At(buffer, p) = 0     -> Refused
      [] At(buffer, p) # 0 /\ At(buffer, p + 1) = 0 -> Undefined
      [] OTHER                 -> DataAt(buffer, p + 2)

PolysAt(buffer, list) ==
    [j \in 1 .. At(buffer, list) |-> PolyAt(buffer, PolyStart(list, j))]

SliceAt(buffer, p) == [a |-> PolyAt(buffer, p), t |-> PolysAt(buffer, p + 3)]

ShardAt(buffer, p) ==
    [i \in 1 .. At(buffer, p) |-> SliceAt(buffer, SliceStarts(buffer, p)[i - 1])]

OutsAt(buffer) ==
    [k \in 1 .. At(buffer, OutputStart(buffer) + 1) |-> ShardAt(buffer, ShardStarts(buffer)[k - 1])]

DbAt(buffer) ==
    [dims |-> [p \in 1 .. 4 |-> At(buffer, p)],
     data |-> IF At(buffer, 5) = 0 THEN Nothing ELSE DataAt(buffer, 6)]

\* Entry e; without the width, unpacking leaves it zero.
UnpackedAt(buffer, e) ==
    LET p    == PackStart(buffer)
        data == DataAt(buffer, p + 7)
    IN  IF At(buffer, p + 5) = 0 \/ data = Zeros THEN Zeros ELSE data[e]

\* The words are put together at the physical width that the file gives, and the
\* matrix is then given the logical width for a physical one.
PackAt(buffer) ==
    LET p    == PackStart(buffer)
        rows == At(buffer, p)
        cols == At(buffer, p + 1)
        per  == At(buffer, p + 3) + 1
        phys == IF per = 1 THEN cols ELSE At(buffer, p + 2)
        word(r, w) == [k \in 1 .. per |->
            IF per * w + k <= cols THEN UnpackedAt(buffer, r * cols + per * w + k) ELSE Zeros]
    IN  [rows  |-> rows, cols |-> At(buffer, p + 4), phys |-> cols, per |-> per,
         words |-> [w \in 1 .. rows * phys |-> word((w - 1) \div phys, (w - 1) % phys)]]

\* Unpacking a matrix that has entries and a width from bytes that were lost.
PackUndefined(buffer) ==
    LET p == PackStart(buffer)
    IN  /\ At(buffer, p) * At(buffer, p + 1) # 0
        /\ At(buffer, p + 5) # 0
        /\ At(buffer, p + 6) = 0

PolysOf(server) ==
    LET slices == UNION {Range(server.outs[k]) : k \in DOMAIN server.outs}
    IN  (UNION {{out.a} \cup Range(out.t) : out \in slices}) \cup Range(server.second)

\* "if (!in.good() && !in.eof())" never holds of a buffer that ends between two
\* cells: nothing is left of it.
Load(buffer) ==
    IF Unknown \in Range(buffer) THEN Undefined
    ELSE LET server == [db     |-> DbAt(buffer),
                        pack   |-> PackAt(buffer),
                        outs   |-> OutsAt(buffer),
                        second |-> PolysAt(buffer, SecondStart(buffer))]
         IN  IF PackUndefined(buffer) \/ Undefined \in PolysOf(server) THEN Undefined
             ELSE IF Refused \in PolysOf(server) THEN Refused ELSE server

\* What a server made from preprocessing is when it is loaded: its packing matrix
\* takes the logical width for the physical one.
Reloaded(db) == [Fresh(db) EXCEPT !.pack.phys = PackCols]

\* The marks of the model are none of the values that they are told apart from.
Apart(db) ==
    LET server == Fresh(db)
    IN  {Nothing, Zeros, Unknown, Refused, Undefined}
          \cap (Nat \cup PolysOf(server) \cup Range(PackEntries(db))
                  \cup {server.db.data, PackEntries(db), Reloaded(db)}) = {}
=============================================================================

----------------------------- MODULE Transplant -----------------------------
(***************************************************************************)
(* lab1/src/transplant.c: one run of `transplant -s` over a directory and  *)
(* one run of `transplant -d` on what it wrote.  Both keep the path of the *)
(* entry they are at in path_buf, with its length in path_length, which    *)
(* the pushes and pops update in their own ways.                           *)
(*                                                                         *)
(* A directory tree is a function from paths (sequences of names) to Dir   *)
(* or to the contents of a file.  Contents are known by their size and by  *)
(* how many bytes precede the first 0xFF, which the serializer takes for   *)
(* the end of the file.  A stream is a sequence of records and runs of     *)
(* bytes, each with its length in bytes.                                   *)
(*                                                                         *)
(* A behaviour ends when the path no longer names the entry it should      *)
(* ("astray"): what is read or written from then on is not claimed.        *)
(***************************************************************************)
EXTENDS Integers, SequencesExt

CONSTANTS Length,    \* length of each name and of each component of a base
          PATH_MAX,  \* size of path_buf, with the byte that ends the string
          Bases,     \* the paths given with -p, as sequences of components
          Trees      \* the trees to serialize

Contents == [size : Nat, good : Nat, magic : BOOLEAN]
Dir == [size |-> -1, good |-> -1, magic |-> FALSE]
Other == [size |-> 1, good |-> 1, magic |-> FALSE]    \* the file that is in the way
Names == DOMAIN Length
Blank == ""                          \* what is between two slashes in a row

\* Every entry has a name and is in the top directory or in one of the tree.
IsTree(t) ==
    /\ t \in [DOMAIN t -> {Dir} \cup Contents]
    /\ \A p \in DOMAIN t :
         /\ p \in Seq(Names) /\ p # <<>> /\ Last(p) # Blank
         /\ Len(p) > 1 => Front(p) \in DOMAIN t /\ t[Front(p)] = Dir
         /\ t[p].good <= t[p].size /\ (t[p].magic => t[p].good >= 3)

\* Position of the '/' before component k.
Slash(at, k) ==
    LET f[i \in 0..Len(at)] == IF i = 0 THEN -1 ELSE f[i - 1] + Length[at[i]] + 1
    IN f[k - 1]
\* The string and the byte behind it are within path_buf.
InBuffer(at) == Slash(at, Len(at) + 1) < PATH_MAX

\* path_init refuses a base that does not fit.
ASSUME TransplantAssumption ==
    /\ \A n \in Names : Length[n] \in Nat
    /\ Blank \in Names /\ Length[Blank] = 0
    /\ PATH_MAX \in Nat
    /\ \A b \in Bases : b \in Seq(Names) /\ b # <<>> /\ InBuffer(b)
    /\ \A t \in Trees : IsTree(t)

VARIABLES base,    \* the path given to the program that runs
          tree,    \* the tree that is serialized
          there,   \* a file that was at the other end before, or <<>>
          clobber, \* option -c of the deserializer
          disk,    \* what the deserializer has made, and what was there before
          phase,   \* "ser", "des", "done", "failed", "astray", "overrun" or "wild"
          path,    \* path_buf, as its components, and path_length
          stack,   \* serializer: open directories and their entries not yet read
          level,   \* deserializer: calls of deserialize_directory in progress
          stream   \* bytes written and not yet read

vars == <<base, tree, there, clobber, disk, phase, path, stack, level, stream>>
-----------------------------------------------------------------------------
(***************************************************************************)
(* path_buf and path_length.                                               *)
(***************************************************************************)
path_init(b) == [at |-> b, len |-> Slash(b, Len(b) + 1)]

\* The serializer counts the name but not the '/' before it, and leaves the
\* string alone when the count reaches PATH_MAX; its callers ignore the result.
path_push(p, n) ==
    LET len == p.len + Length[n]
    IN [at |-> IF PATH_MAX > len THEN Append(p.at, n) ELSE p.at, len |-> len]
Pushed(p, n) == p.len + Length[n] < PATH_MAX /\ InBuffer(path_push(p, n).at)

\* The deserializer appends the '/' and the name, counting each character and
\* never looking for the end of the buffer.
dir_name_concat(p, n) == [at |-> Append(p.at, n), len |-> p.len + 1 + Length[n]]

\* The characters from path_length - 1 down to a '/' are erased, and the string
\* ends at that '/' when its position is above 2; otherwise the '/' stays.
\* Without a '/' the loop runs below the buffer.
Below(p) == {k \in 2..Len(p.at) : Slash(p.at, k) <= p.len - 1}
\* Faulty: path_length is set to two below the end of the string.
path_pop_short(p) ==
    LET k == Max(Below(p))
    IN [at |-> SubSeq(p.at, 1, k - 1), len |-> Slash(p.at, k) - 2]
path_pop(p) ==
    LET k == Max(Below(p))
        i == Slash(p.at, k)
    IN IF i > 2 THEN [at |-> SubSeq(p.at, 1, k - 1), len |-> i - 1]
       ELSE IF p.len - 1 > i THEN [p EXCEPT !.at = Append(SubSeq(@, 1, k - 1), Blank)]
       ELSE p

\* The components that name a file: "a//b" is "a/b".
Steps(at) ==
    LET f[i \in 0..Len(at)] ==
          IF i = 0 THEN <<>> ELSE IF at[i] = Blank THEN f[i - 1] ELSE Append(f[i - 1], at[i])
    IN f[Len(at)]
Entry(p)  == SubSeq(Steps(p.at), Len(Steps(base)) + 1, Len(Steps(p.at)))

\* path_pop, and what it does to the run: only the last component should go.
Pop(p) ==
    LET right == Below(p) # {} /\ Steps(path_pop(p).at) = Front(Steps(p.at))
    IN /\ path' = IF right THEN path_pop(p) ELSE p
       /\ phase' = IF right THEN phase ELSE "astray"
-----------------------------------------------------------------------------
(***************************************************************************)
(* Records.                                                                *)
(***************************************************************************)
Record(is, len, name) == [is |-> is, len |-> len, name |-> name]
Plain(is)  == <<Record(is, 16, Blank)>>
Named(n)   == <<Record("entry", 28 + Length[n], n)>>
\* The size goes into the header, the bytes before the first 0xFF follow.
Bytes(f)   == IF f.good = 0 THEN <<>>
              ELSE <<Record(IF f.magic THEN "text" ELSE "bytes", f.good, Blank)>>
FileData(f) == <<[is |-> "file", len |-> 16, size |-> f.size]>> \o Bytes(f)

\* What is left of a record is junk, which has no magic sequence; what is left
\* of a name or a file may have one.
Remnant(is) == IF is \in {"entry", "bytes", "text"} THEN "text" ELSE "junk"
\* The stream behind its first byte.
SkipByte(s) ==
    IF s = <<>> THEN s
    ELSE IF s[1].len = 1 THEN Tail(s)
    ELSE <<Record(Remnant(s[1].is), s[1].len - 1, Blank)>> \o Tail(s)
\* The stream behind its first n bytes.
Skip(s, n) == LET f[i \in 0..n] == IF i = 0 THEN s ELSE SkipByte(f[i - 1]) IN f[n]
-----------------------------------------------------------------------------
Children(t, d) == {Last(p) : p \in {q \in DOMAIN t : q # <<>> /\ Front(q) = d}}

\* A file may be in the way at the other end, in directories of the same names.
Init ==
    /\ base \in Bases /\ tree \in Trees /\ clobber \in BOOLEAN
    /\ there \in {<<>>} \cup {p \in DOMAIN tree : tree[p] # Dir}
    /\ disk = [p \in {SubSeq(there, 1, k) : k \in 1..Len(there)} |-> IF p = there THEN Other ELSE Dir]
    /\ phase = "ser" /\ path = path_init(base) /\ level = 0
    /\ stack = <<[dir |-> <<>>, left |-> Children(tree, <<>>)]>>
    /\ stream = Plain("sot") \o Plain("sod")

(***************************************************************************)
(* serialize, serialize_directory and serialize_file.                      *)
(***************************************************************************)
Top == Last(stack)
Done(n) == Append(Front(stack), [Top EXCEPT !.left = @ \ {n}])

\* readdir yields the entries in any order.
SerializeDirectory(n) ==
    LET d == Append(Top.dir, n)
    IN /\ phase = "ser" /\ n \in Top.left /\ tree[d] = Dir /\ Pushed(path, n)
       /\ path' = path_push(path, n)
       /\ stack' = Append(Done(n), [dir |-> d, left |-> Children(tree, d)])
       /\ stream' = stream \o Named(n) \o Plain("sod")
       /\ UNCHANGED <<base, tree, there, clobber, disk, phase, level>>

SerializeFile(n) ==
    LET f == tree[Append(Top.dir, n)]
    IN /\ phase = "ser" /\ n \in Top.left /\ f # Dir /\ Pushed(path, n)
       /\ Pop(path_push(path, n))
       /\ stack' = Done(n)
       /\ stream' = stream \o Named(n) \o FileData(f)
       /\ UNCHANGED <<base, tree, there, clobber, disk, level>>

\* The directory is entered again under its own path, or the name is written
\* behind the buffer.
PushTooLong(n) ==
    /\ phase = "ser" /\ n \in Top.left /\ ~Pushed(path, n)
    /\ phase' = "overrun" /\ path' = path_push(path, n)
    /\ UNCHANGED <<base, tree, there, clobber, disk, stack, level, stream>>

EndOfDirectory ==
    /\ phase = "ser" /\ Top.left = {} /\ Len(stack) > 1
    /\ Pop(path)
    /\ stack' = Front(stack)
    /\ stream' = stream \o Plain("eod")
    /\ UNCHANGED <<base, tree, there, clobber, disk, level>>

\* The serializer ends; the deserializer, started with a path of its own, reads
\* the first two records.
EndOfTransmission ==
    /\ phase = "ser" /\ Top.left = {} /\ Len(stack) = 1
    /\ base' \in Bases /\ path' = path_init(base')
    /\ phase' = "des" /\ stack' = <<>>
    /\ stream' = Skip(stream \o Plain("eod") \o Plain("eot"), 32)
    /\ UNCHANGED <<tree, there, clobber, disk, level>>
-----------------------------------------------------------------------------
(***************************************************************************)
(* deserialize, deserialize_directory and deserialize_file.                *)
(***************************************************************************)
Is(i, kinds) == Len(stream) >= i /\ stream[i].is \in kinds

\* Faulty: deserialize goes on after an error of its own, too.
ErrorIgnored(p, rest) == level' = 0 /\ stream' = rest /\ Pop(p)
\* An error in deserialize ends the program.  In deserialize_directory it ends
\* every call in progress, and deserialize, which does not look at the result,
\* goes on with the next byte of rest.
Error(p, rest) ==
    /\ level' = 0 /\ stream' = rest
    /\ IF level = 0 THEN phase' = "failed" /\ path' = p ELSE Pop(p)

\* The magic sequence does not follow; the bytes that were compared, up to the
\* first that differs, are gone.
BadMagic ==
    /\ phase = "des" /\ ~Is(1, {"entry", "eod", "sod", "file", "eot"})
    /\ \E n \in 1..3 : Error(path, Skip(stream, n))
    /\ UNCHANGED <<base, tree, there, clobber, disk, stack>>

\* The magic sequence follows, and is none of the serializer's: the bytes are
\* read as a record, which may be the one that ends the top directory.
Misread ==
    /\ phase = "des" /\ Is(1, {"text"})
    /\ \/ phase' = "wild"
       \/ level = 0 /\ stream[1].len > 3 /\ phase' = "done"
    /\ UNCHANGED <<base, tree, there, clobber, disk, path, stack, level, stream>>

\* A record that is no entry is read as one: its size is not that of an entry.
WrongRecord ==
    /\ phase = "des" /\ Is(1, {"sod", "file", "eot"})
    /\ phase' = "wild"
    /\ UNCHANGED <<base, tree, there, clobber, disk, path, stack, level, stream>>

Finish ==
    /\ phase = "des" /\ Is(1, {"eod"}) /\ level = 0
    /\ phase' = "done"
    /\ UNCHANGED <<base, tree, there, clobber, disk, path, stack, level, stream>>

\* Faulty: the depth and the size are never read.
LeaveDirectoryEarly ==
    /\ phase = "des" /\ Is(1, {"eod"}) /\ level > 0
    /\ Pop(path)
    /\ level' = level - 1 /\ stream' = Skip(stream, 4)
    /\ UNCHANGED <<base, tree, there, clobber, disk, stack>>
\* deserialize_directory returns behind the type of the record; only
\* deserialize reads the depth and the size that follow it.
LeaveDirectory ==
    /\ phase = "des" /\ Is(1, {"eod"}) /\ level > 0
    /\ Pop(path)
    /\ level' = level - 1
    /\ stream' = Skip(stream, IF level = 1 THEN 16 ELSE 4)
    /\ UNCHANGED <<base, tree, there, clobber, disk, stack>>

Into(p) == dir_name_concat(p, stream[1].name)
Exists(e) == e \in DOMAIN disk
With(e, what) == [p \in DOMAIN disk \cup {e} |-> IF p = e THEN what ELSE disk[p]]
Parent(e) == Len(e) = 1 \/ (Exists(Front(e)) /\ disk[Front(e)] = Dir)

\* mkdir's result is ignored.
EnterDirectory ==
    LET p == Into(path)
        e == Entry(p)
    IN /\ phase = "des" /\ Is(1, {"entry"}) /\ Is(2, {"sod"}) /\ InBuffer(p.at)
       /\ path' = p /\ level' = level + 1
       /\ disk' = IF ~Exists(e) /\ Parent(e) THEN With(e, Dir) ELSE disk
       /\ stream' = Tail(Tail(stream))
       /\ UNCHANGED <<base, tree, there, clobber, phase, stack>>

\* What is read into a file of the given size from the bytes that follow.
Read(size, rest) ==
    LET data == size > 0 /\ rest[1].is \in {"bytes", "text"}
    IN [size |-> size, good |-> IF data THEN rest[1].len ELSE 0,
        magic |-> data /\ rest[1].is = "text"]

MakeFile ==
    LET p == Into(path)
        e == Entry(p)
        size == stream[2].size
        rest == Tail(Tail(stream))
    IN /\ phase = "des" /\ Is(1, {"entry"}) /\ Is(2, {"file"}) /\ InBuffer(p.at)
       /\ IF ~Parent(e) \/ (Exists(e) /\ (~clobber \/ disk[e] = Dir))
          THEN Error(p, rest) /\ UNCHANGED disk
          ELSE /\ disk' = With(e, Read(size, rest))
               /\ stream' = Skip(rest, size)
               /\ Pop(p) /\ UNCHANGED level
       /\ UNCHANGED <<base, tree, there, clobber, stack>>

\* The name is written behind the buffer.
ConcatTooLong ==
    /\ phase = "des" /\ Is(1, {"entry"}) /\ ~InBuffer(Into(path).at)
    /\ phase' = "overrun" /\ path' = Into(path)
    /\ UNCHANGED <<base, tree, there, clobber, disk, stack, level, stream>>

Ended == phase \notin {"ser", "des"} /\ UNCHANGED vars
-----------------------------------------------------------------------------
Next ==
    \/ \E n \in Names : SerializeDirectory(n) \/ SerializeFile(n) \/ PushTooLong(n)
    \/ EndOfDirectory \/ EndOfTransmission
    \/ BadMagic \/ Misread \/ WrongRecord \/ Finish \/ LeaveDirectory
    \/ EnterDirectory \/ MakeFile \/ ConcatTooLong
    \/ Ended

Spec == Init /\ [][Next]_vars
-----------------------------------------------------------------------------
(***************************************************************************)
(* Properties.                                                             *)
(***************************************************************************)
Truncated == \E p \in DOMAIN tree : tree[p].good < tree[p].size
Nested    == \E p \in DOMAIN tree : Len(p) > 1 /\ tree[p] = Dir
InTheWay  == there # <<>> /\ ~clobber

Crossed   == \/ Slash(base, Len(base) + 1) < 3
             \/ \E p \in DOMAIN tree : Length[Last(p)] <= Len(p)
TooLong   == \E p \in DOMAIN tree : ~InBuffer(base \o p)

\* path_buf names the entry in work throughout, whatever the tree and the order
\* in which readdir yields it, if the path given has at least three characters
\* and every name is longer than the number of names above it plus one (the
\* length path_length falls behind the string by one more at each push).  The
\* buffer, for which path_push tests that length and dir_name_concat none, is
\* then too small only if the path of an entry is too long for it, or if the
\* deserializer has dropped an error and taken the wrong directory.
PathsFollow ==
    /\ phase = "astray" => Crossed
    /\ phase = "overrun" => \/ Crossed \/ TooLong
                            \/ stack = <<>> /\ (Nested \/ Truncated \/ InTheWay)

\* The deserializer fails, or runs away, only on a tree with a directory inside
\* a directory, with a file cut short at a 0xFF byte, or with a file in the way.
RoundTrip == phase \in {"failed", "wild"} => Nested \/ Truncated \/ InTheWay

\* When the deserializer reports success the copy is complete, except after a
\* file cut short, and after a file in the way inside a directory that is empty
\* or begins with the magic sequence: the error of deserialize_file is dropped,
\* and what follows (the next records, or the bytes of the file itself) is taken
\* for the rest of the top directory.
SuccessIsComplete ==
    phase = "done" =>
      \/ disk = tree \/ Truncated
      \/ InTheWay /\ Len(there) > 1 /\ (tree[there].size = 0 \/ tree[there].magic)
=============================================================================

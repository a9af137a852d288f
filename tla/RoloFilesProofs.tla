--------------------------- MODULE RoloFilesProofs ---------------------------
(* What the lock file of the rolodex program protects, for any instances,  *)
(* starts and changes: the lock tells the writer, what is saved survives   *)
(* crashes, and nobody reads a torn rolodex.  Inv is inductive.            *)
EXTENDS RoloFiles, FiniteSetTheorems, TLAPS

Files == Inodes \cup {0}
Saving == {"saveTemp", "saveCopy", "write", "closeTemp", "closeCopy",
           "backup", "install"}
Points == {"off", "creat", "look", "lock", "try", "open", "read", "print",
           "menu", "unlock", "exit", "handler"} \cup Saving
Events == {"unlocked", "eof", "late", "overtaken", "creat", "changed", "crash"}
Instance == [pc : Points, opt : Options \cup {None}, locked : BOOLEAN,
             temp : Files, copy : Files, fd : Files, core : SUBSET Nat,
             changed : BOOLEAN, after : {None, "menu", "unlock"}]

TypeOK ==
  /\ disk \in [Inodes -> SUBSET Nat]
  /\ mixed \subseteq Inodes
  /\ dir \in [Names -> Files]
  /\ lock \in Procs \cup {None}
  /\ proc \in [Procs -> Instance]
  /\ edits \in Nat /\ starts \in Nat
  /\ saved \subseteq Nat
  /\ past \subseteq Events

(* What an instance holds at each of its points. *)
PointOf(p) ==
  LET i == proc[p]
  IN  /\ i.pc \in {"off", "creat", "look", "lock"} => ~ i.locked
      /\ i.locked \/ i.pc = "lock" => i.opt \notin {"l", "read"}
      /\ i.pc = "print" => i.opt = "read"
      /\ i.pc = "try" => i.opt = "l" \/ i.locked
      /\ i.pc = "handler" => i.locked
      /\ i.pc \in {"saveCopy", "write", "closeTemp"} => i.temp # 0
      /\ i.temp # 0 => i.pc \in {"saveCopy", "write", "closeTemp", "handler"}
      /\ i.pc \in {"write", "closeTemp", "closeCopy"} => i.copy # 0
      /\ i.copy # 0 => i.pc \in {"write", "closeTemp", "closeCopy", "unlock",
                                 "exit", "handler"}
      /\ i.fd # 0 <=> i.pc = "read"
      /\ i.pc \in Saving => i.after # None

PointInv == \A p \in Procs : PointOf(p)

(* The lock file belongs to the instance that is locked. *)
LockInv ==
  /\ past \cap {"eof", "late"} = {} =>
       \A p \in Procs : proc[p].locked /\ ~ Leaving(p) => lock = p
  /\ \A p \in Procs : proc[p].locked /\ Leaving(p) => lock # p
  /\ past \cap {"eof", "late", "changed", "crash"} = {} =>
       \A p \in Procs : lock = p => proc[p].locked

(* Where an instance may write, or is about to, other than in exit. *)
Writer(p) ==
  \/ proc[p].copy # 0 /\ ~ Leaving(p)
  \/ proc[p].pc \in {"menu"} \cup Saving
  \/ proc[p].pc \in {"open", "read"} /\ proc[p].opt # "read"

WritersInv == ~ Shared => \A p \in Procs : Writer(p) => proc[p].locked

(* No two names are of one file. *)
DirInv == \A m, n \in Names : m # n /\ dir[m] = dir[n] => dir[m] = 0

(* The files a writer has open are .rolotemp and .rolocopy, which nobody   *)
(* reads; a file that is read changes only by being truncated.             *)
FilesOf(p) ==
  /\ proc[p].temp # 0 => proc[p].temp = dir["TEMP"]
  /\ proc[p].copy # 0 => proc[p].copy = dir["COPY"]
  /\ proc[p].fd # 0 => /\ proc[p].fd \notin {dir["TEMP"], dir["COPY"]}
                       /\ disk[proc[p].fd] \in {proc[p].core, {}}

FilesInv == ~ Shared => \A p \in Procs : FilesOf(p)

(* An instance that has opened a file to save has it alone: what another   *)
(* had to write from its exit has been written.                            *)
OpenOf(p) ==
  /\ proc[p].pc \in Saving => Written(p) \cap mixed = {}
  /\ proc[p].pc \in Saving \ {"saveTemp"} =>
       \A q \in Procs \ {p} : proc[q].temp = 0
  /\ proc[p].pc \in Saving \ {"saveTemp", "saveCopy"} =>
       \A q \in Procs \ {p} : proc[q].copy = 0

OpenInv == ~ Shared => \A p \in Procs : OpenOf(p)

(* What has been written and closed is whole. *)
WholeOf(p) ==
  /\ 0 \notin proc[p].core
  /\ proc[p].pc \in {"closeCopy", "backup", "install"} =>
       dir["TEMP"] # 0 /\ Content("TEMP") = proc[p].core
  /\ proc[p].pc \in {"backup", "install"} =>
       dir["COPY"] # 0 /\ Content("COPY") = proc[p].core

WholeInv ==
  ~ Shared => /\ \A p \in Procs : WholeOf(p)
              /\ dir["DATA"] # 0 => 0 \notin Content("DATA")

(* What is saved is in the files and in core. *)
SavedOf(p) ==
  proc[p].locked /\ proc[p].pc \in {"read", "menu"} \cup Saving =>
    saved \subseteq proc[p].core

SavedInv ==
  ~ Shared /\ "creat" \notin past =>
    /\ dir["DATA"] # 0 => saved \subseteq Content("DATA")
    /\ dir["DATA"] = 0 /\ saved # {} =>
         dir["BAK"] # 0 /\ saved \subseteq Content("BAK")
    /\ \A p \in Procs : SavedOf(p)

Inv ==
  /\ TypeOK
  /\ PointInv /\ LockInv /\ WritersInv
  /\ DirInv /\ FilesInv /\ OpenInv /\ WholeInv
  /\ SavedInv

(* With a file to be made there are fewer files in use than inodes: a new  *)
(* file is none of those that have a name or are open.                     *)
LEMMA FreshExists ==
  ASSUME TypeOK, NEW n \in Names, dir[n] = 0
  PROVE  /\ Fresh \in Inodes
         /\ \A m \in Names : dir[m] # Fresh
         /\ \A p \in Procs : Fresh \notin Held(p)
<1> DEFINE C == Cardinality(Procs)
           open == {"temp", "copy", "fd"} \X Procs
           named == {"dir"} \X (Names \ {n})
           uses == open \cup named
           file == [x \in uses |-> IF x[1] = "temp" THEN proc[x[2]].temp
                                   ELSE IF x[1] = "copy" THEN proc[x[2]].copy
                                   ELSE IF x[1] = "fd" THEN proc[x[2]].fd
                                   ELSE dir[x[2]]]
           inuse == {x \in uses : file[x] \in Inodes}
<1>1. C \in Nat
  BY ProcsAssumption, FS_CardinalityType
<1>2. IsFiniteSet(Inodes) /\ Cardinality(Inodes) = 4 + 3 * C
  <2>1. 4 + 3 * C \in Int /\ 1 \in Int /\ 4 + 3 * C >= 1
    BY <1>1
  <2> HIDE DEF C
  <2>2. IsFiniteSet(1 .. 4 + 3 * C) /\ Cardinality(1 .. 4 + 3 * C) = 4 + 3 * C
    BY <2>1, FS_Interval
  <2> QED
    BY <2>2 DEF C, Inodes
<1>3. IsFiniteSet(open) /\ Cardinality(open) = 3 * C
  <2>1. IsFiniteSet({"temp", "copy", "fd"}) /\ Cardinality({"temp", "copy", "fd"}) = 3
    <3>1. IsFiniteSet({"temp"}) /\ Cardinality({"temp"}) = 1
      BY FS_Singleton
    <3>2. IsFiniteSet({"temp"} \cup {"copy"}) /\ Cardinality({"temp"} \cup {"copy"}) = 2
      BY <3>1, FS_AddElement
    <3>3. {"temp", "copy", "fd"} = ({"temp"} \cup {"copy"}) \cup {"fd"}
      OBVIOUS
    <3>4. "fd" \notin {"temp"} \cup {"copy"}
      OBVIOUS
    <3> QED
      BY <3>2, <3>3, <3>4, FS_AddElement
  <2> QED
    BY <2>1, ProcsAssumption, FS_Product
<1>4. IsFiniteSet(named) /\ Cardinality(named) = 3
  <2>1. IsFiniteSet(Names) /\ Cardinality(Names) = 4
    <3> DEFINE two == {"DATA"} \cup {"BAK"}
               three == two \cup {"TEMP"}
    <3>1. IsFiniteSet({"DATA"}) /\ Cardinality({"DATA"}) = 1
      BY FS_Singleton
    <3>2. IsFiniteSet(two) /\ Cardinality(two) = 2
      BY <3>1, FS_AddElement
    <3>3. "TEMP" \notin two /\ "COPY" \notin three /\ Names = three \cup {"COPY"}
      BY DEF Names
    <3>4. IsFiniteSet(three) /\ Cardinality(three) = 3
      BY <3>2, <3>3, FS_AddElement
    <3> HIDE DEF two, three
    <3> QED
      BY <3>3, <3>4, FS_AddElement
  <2>2. IsFiniteSet(Names \ {n}) /\ Cardinality(Names \ {n}) = 3
    BY <2>1, FS_RemoveElement
  <2>3. IsFiniteSet({"dir"}) /\ Cardinality({"dir"}) = 1
    BY FS_Singleton
  <2> QED
    BY <2>2, <2>3, FS_Product
<1>5. IsFiniteSet(uses) /\ Cardinality(uses) = 3 * C + 3
  <2>1. open \cap named = {}
    OBVIOUS
  <2>2. Cardinality(open \cap named) = 0
    BY <2>1, FS_EmptySet
  <2> HIDE DEF open, named, C
  <2>3. /\ IsFiniteSet(uses)
        /\ Cardinality(uses) = Cardinality(open) + Cardinality(named) - Cardinality(open \cap named)
    BY <1>3, <1>4, FS_Union
  <2> QED
    BY <1>1, <1>3, <1>4, <2>2, <2>3
<1>6. IsFiniteSet(inuse) /\ Cardinality(inuse) <= 3 * C + 3 /\ Cardinality(inuse) \in Nat
  <2>1. inuse \in SUBSET uses
    OBVIOUS
  <2> HIDE DEF inuse, uses, C
  <2> QED
    BY <1>1, <1>5, <2>1, FS_Subset, FS_CardinalityType
<1>7. PICK i \in Inodes : \A x \in inuse : file[x] # i
  <2> SUFFICES ASSUME \A i \in Inodes : \E x \in inuse : file[x] = i
               PROVE  FALSE
    OBVIOUS
  <2> DEFINE f == [x \in inuse |-> file[x]]
  <2>0. \A x \in inuse : file[x] \in Inodes
    OBVIOUS
  <2> HIDE DEF inuse, file
  <2>1. f \in Surjection(inuse, Inodes)
    BY <2>0 DEF Surjection
  <2>2. Cardinality(Inodes) <= Cardinality(inuse)
    BY <1>6, <2>1, FS_Surjection
  <2> QED
    BY <1>1, <1>2, <1>6, <2>2
<1>8. \A m \in Names : dir[m] # i
  <2> SUFFICES ASSUME NEW m \in Names, dir[m] = i
               PROVE  FALSE
    OBVIOUS
  <2>1. m # n
    BY <1>1 DEF Inodes
  <2>2. <<"dir", m>> \in uses /\ file[<<"dir", m>>] = i
    BY <2>1
  <2> QED
    BY <1>7, <2>2
<1>9. \A p \in Procs : i \notin Held(p)
  <2> SUFFICES ASSUME NEW p \in Procs, i \in Held(p)
               PROVE  FALSE
    OBVIOUS
  <2>1. /\ <<"temp", p>> \in uses /\ file[<<"temp", p>>] = proc[p].temp
        /\ <<"copy", p>> \in uses /\ file[<<"copy", p>>] = proc[p].copy
        /\ <<"fd", p>> \in uses /\ file[<<"fd", p>>] = proc[p].fd
    OBVIOUS
  <2> HIDE DEF file, uses
  <2> QED
    BY <1>7, <2>1 DEF Held
<1> HIDE DEF C, open, named, uses, file, inuse
<1>10. \E j \in Inodes : j \notin {dir[m] : m \in Names} /\ \A p \in Procs : j \notin Held(p)
  BY <1>8, <1>9
<1>11. /\ Fresh \in Inodes
       /\ Fresh \notin {dir[m] : m \in Names} /\ \A p \in Procs : Fresh \notin Held(p)
  BY <1>10 DEF Fresh
<1> QED
  BY <1>11

(* Opening a file for writing: the file i that has the name, or a new one   *)
(* that nobody has open, is empty.                                         *)
OpenedAs(p, n, i) ==
  /\ dir' = [dir EXCEPT ![n] = i]
  /\ dir[n] # 0 => i = dir[n]
  /\ dir[n] = 0 => /\ \A m \in Names : dir[m] # i
                   /\ \A q \in Procs : i \notin Held(q)
  /\ disk' = [disk EXCEPT ![i] = {}]
  /\ mixed' = IF \E q \in Procs \ {p} : i \in Written(q)
                THEN mixed \cup {i} ELSE mixed \ {i}

LEMMA Opened ==
  ASSUME TypeOK, NEW p \in Procs, NEW n \in Names, OpenEmpty(p, n)
  PROVE  \E i \in Inodes : OpenedAs(p, n, i) /\ dir'[n] = i
<1> DEFINE i == IF dir[n] = 0 THEN Fresh ELSE dir[n]
<1>1. i \in Inodes
  BY FreshExists DEF TypeOK, Files
<1>2. dir[n] = 0 => /\ \A m \in Names : dir[m] # i
                    /\ \A q \in Procs : i \notin Held(q)
  BY FreshExists
<1>3. dir' = [dir EXCEPT ![n] = i]
  BY DEF OpenEmpty
<1> HIDE DEF i
<1>4. dir'[n] = i
  BY <1>3 DEF TypeOK
<1> QED
  BY <1>1, <1>2, <1>3, <1>4 DEF OpenEmpty, OpenedAs, i

(* What is seen of an instance that becomes j. *)
Lands(p, j) ==
  /\ \A q \in Procs \ {p} : proc'[q] = proc[q]
  /\ proc'[p].pc = j.pc /\ proc'[p].opt = j.opt /\ (proc'[p].locked <=> j.locked)
  /\ proc'[p].temp = j.temp /\ proc'[p].copy = j.copy /\ proc'[p].fd = j.fd
  /\ proc'[p].core = j.core /\ proc'[p].after = j.after

LEMMA Landed ==
  ASSUME TypeOK, NEW p \in Procs, NEW j, proc' = [proc EXCEPT ![p] = j]
  PROVE  Lands(p, j)
BY DEF Lands, TypeOK

(* An instance that is not under way holds nothing.                        *)
Bare(p) ==
  /\ ~ proc[p].locked /\ proc[p].core = {}
  /\ proc[p].temp = 0 /\ proc[p].copy = 0 /\ proc[p].fd = 0

(* The steps that change several fields of an instance, as they are seen.  *)
LockAs(p) ==
  /\ proc[p].pc = "lock"
  /\ UNCHANGED <<disk, mixed, dir, edits, saved, past>>
  /\ \/ /\ lock # None /\ lock' = lock
        /\ Bare(p)' /\ proc'[p].pc = "off"
        /\ \A q \in Procs \ {p} : proc'[q] = proc[q]
     \/ /\ lock = None /\ lock' = p
        /\ Lands(p, [proc[p] EXCEPT !.pc = "try", !.locked = TRUE])

OpenAs(p) ==
  /\ proc[p].pc = "open"
  /\ UNCHANGED <<disk, mixed, dir, lock, edits, saved, past>>
  /\ \/ dir["DATA"] = 0 /\ Lands(p, [proc[p] EXCEPT !.pc = "unlock"])
     \/ /\ dir["DATA"] # 0
        /\ Lands(p, [proc[p] EXCEPT !.pc = "read", !.fd = dir["DATA"],
                                    !.core = Content("DATA")])

EditAs(p) ==
  /\ proc[p].pc = "menu" /\ edits' = edits + 1
  /\ UNCHANGED <<disk, mixed, dir, lock, saved, past>>
  /\ Lands(p, [proc[p] EXCEPT !.core = proc[p].core \cup {edits'}, !.changed = TRUE])

LeaveAs(p) ==
  /\ proc[p].pc = "menu"
  /\ UNCHANGED <<disk, mixed, dir, edits, saved>>
  /\ \/ UNCHANGED <<lock, past>>
     \/ lock' = None /\ past' = past \cup {"eof"}
  /\ \/ Lands(p, [proc[p] EXCEPT !.pc = "saveTemp", !.after = "unlock"])
     \/ Lands(p, [proc[p] EXCEPT !.pc = "unlock"])

SaveTempAs(p, i) ==
  /\ proc[p].pc = "saveTemp"
  /\ OpenedAs(p, "TEMP", i)
  /\ Lands(p, [proc[p] EXCEPT !.pc = "saveCopy", !.temp = i])
  /\ UNCHANGED <<lock, edits, saved>>
  /\ past \subseteq past' /\ past' \subseteq past \cup {"overtaken"}
  /\ Overtakes(p, "TEMP") => Shared'

SaveCopyAs(p, i) ==
  /\ proc[p].pc = "saveCopy"
  /\ OpenedAs(p, "COPY", i)
  /\ Lands(p, [proc[p] EXCEPT !.pc = "write", !.copy = i])
  /\ UNCHANGED <<lock, edits, saved>>
  /\ past \subseteq past' /\ past' \subseteq past \cup {"overtaken"}
  /\ Overtakes(p, "COPY") => Shared'

(* fclose succeeds and the rolodex is in the file, or it fails.            *)
CloseTempAs(p) ==
  /\ proc[p].pc = "closeTemp"
  /\ UNCHANGED <<mixed, dir, lock, edits, saved, past>>
  /\ \/ /\ Lands(p, [proc[p] EXCEPT !.pc = "closeCopy", !.temp = 0])
        /\ \E c \in Flushed(p, proc[p].temp) :
             disk' = [disk EXCEPT ![proc[p].temp] = c]
     \/ /\ Lands(p, [proc[p] EXCEPT !.pc = "unlock", !.temp = 0])
        /\ disk' = [disk EXCEPT ![proc[p].temp] = Torn]

CloseCopyAs(p) ==
  /\ proc[p].pc = "closeCopy"
  /\ UNCHANGED <<mixed, dir, lock, edits, saved, past>>
  /\ \/ /\ Lands(p, [proc[p] EXCEPT !.pc = "backup", !.copy = 0])
        /\ \E c \in Flushed(p, proc[p].copy) :
             disk' = [disk EXCEPT ![proc[p].copy] = c]
     \/ /\ Lands(p, [proc[p] EXCEPT !.pc = "unlock", !.copy = 0])
        /\ disk' = [disk EXCEPT ![proc[p].copy] = Torn]

(* exit writes some of a buffer, all of it or nothing.                     *)
FlushAs(p) ==
  /\ Leaving(p)
  /\ UNCHANGED <<mixed, dir, lock, edits, saved, past>>
  /\ \E c \in SUBSET Nat :
       \/ /\ proc[p].temp # 0 /\ disk' = [disk EXCEPT ![proc[p].temp] = c]
          /\ Lands(p, [proc[p] EXCEPT !.temp = 0])
       \/ /\ proc[p].copy # 0 /\ disk' = [disk EXCEPT ![proc[p].copy] = c]
          /\ Lands(p, [proc[p] EXCEPT !.copy = 0])

(* The handler goes on into exit, with something to write or nothing.      *)
InterruptAs(p) ==
  /\ proc[p].locked /\ proc[p].pc # "handler" /\ lock' = None
  /\ UNCHANGED <<disk, mixed, dir, edits, saved>>
  /\ past' = IF proc[p].pc = "exit" THEN past \cup {"late"} ELSE past
  /\ \/ /\ Bare(p)' /\ proc'[p].pc = "off"
        /\ \A q \in Procs \ {p} : proc'[q] = proc[q]
     \/ /\ proc[p].pc \in {"closeTemp", "closeCopy", "unlock", "exit"}
        /\ Lands(p, [proc[p] EXCEPT !.pc = "handler"])

InstallAs(p) ==
  /\ proc[p].pc = "install"
  /\ UNCHANGED <<disk, mixed, lock, edits, past>>
  /\ \/ /\ dir["TEMP"] = 0 /\ UNCHANGED <<dir, saved>>
        /\ Lands(p, [proc[p] EXCEPT !.pc = "unlock"])
     \/ /\ dir["TEMP"] # 0
        /\ dir' = [dir EXCEPT !["DATA"] = dir["TEMP"], !["TEMP"] = 0]
        /\ saved' = saved \cup proc[p].core
        /\ Lands(p, [proc[p] EXCEPT !.pc = proc[p].after, !.after = None,
                                    !.changed = FALSE])

LEMMA Effects ==
  ASSUME TypeOK, NEW p \in Procs
  PROVE  /\ Lock(p) => LockAs(p)
         /\ Open(p) => OpenAs(p)
         /\ Edit(p) => EditAs(p)
         /\ Quit(p) \/ user_eof(p) => LeaveAs(p)
         /\ SaveTemp(p) => \E i \in Inodes : SaveTempAs(p, i)
         /\ SaveCopy(p) => \E i \in Inodes : SaveCopyAs(p, i)
         /\ CloseTemp(p) => CloseTempAs(p)
         /\ CloseCopy(p) => CloseCopyAs(p)
         /\ Install(p) => InstallAs(p)
         /\ FlushTemp(p) \/ FlushCopy(p) => FlushAs(p)
         /\ user_interrupt(p) => InterruptAs(p)
<1>1. Lock(p) => LockAs(p)
  <2>1. ASSUME Lands(p, Off)
        PROVE  /\ Bare(p)' /\ proc'[p].pc = "off"
               /\ \A q \in Procs \ {p} : proc'[q] = proc[q]
    BY <2>1 DEF Lands, Bare, Off
  <2> QED
    BY <2>1, Landed DEF Lock, LockAs, Gone, At
<1>2. Open(p) => OpenAs(p)
  BY Landed DEF Open, OpenAs, Goto, At
<1>3. Edit(p) => EditAs(p)
  BY Landed DEF Edit, EditAs, At
<1>4. Quit(p) \/ user_eof(p) => LeaveAs(p)
  BY Landed DEF Quit, user_eof, SaveAndExit, LeaveAs, Goto, At
<1>5. SaveTemp(p) => \E i \in Inodes : SaveTempAs(p, i)
  BY Landed, Opened DEF SaveTemp, SaveTempAs, At, Names, Shared
<1>6. SaveCopy(p) => \E i \in Inodes : SaveCopyAs(p, i)
  BY Landed, Opened DEF SaveCopy, SaveCopyAs, At, Names, Shared
<1>7. CloseTemp(p) => CloseTempAs(p)
  BY Landed DEF CloseTemp, Close, CloseTempAs, At
<1>8. CloseCopy(p) => CloseCopyAs(p)
  BY Landed DEF CloseCopy, Close, CloseCopyAs, At
<1>9. Install(p) => InstallAs(p)
  BY Landed DEF Install, InstallAs, Goto, At
<1>10. FlushTemp(p) \/ FlushCopy(p) => FlushAs(p)
  <2>1. proc[p].core \in SUBSET Nat /\ Torn \in SUBSET Nat
    BY DEF TypeOK, Instance, Torn
  <2>2. ASSUME NEW f \in {"temp", "copy"}, Flush(p, f)
        PROVE  \E c \in SUBSET Nat : disk' = [disk EXCEPT ![proc[p][f]] = c]
    <3>1. proc[p][f] \in Inodes
      BY <2>2 DEF Flush, TypeOK, Instance, Files
    <3> QED
      BY <2>1, <2>2, <3>1 DEF Flush, TypeOK
  <2> QED
    BY <2>2, Landed DEF FlushTemp, FlushCopy, Flush, FlushAs
<1>11. user_interrupt(p) => InterruptAs(p)
  <2>1. ASSUME Lands(p, Off)
        PROVE  /\ Bare(p)' /\ proc'[p].pc = "off"
               /\ \A q \in Procs \ {p} : proc'[q] = proc[q]
    BY <2>1 DEF Lands, Bare, Off
  <2>2. ASSUME user_interrupt(p), Buffered(p) # {}
        PROVE  proc[p].pc \in {"closeTemp", "closeCopy", "unlock", "exit"}
    BY <2>2 DEF user_interrupt, Buffered, Leaving, At
  <2> QED
    BY <2>1, <2>2, Landed DEF user_interrupt, InterruptAs, Gone, At
<1> QED
  BY <1>1, <1>2, <1>3, <1>4, <1>5, <1>6, <1>7, <1>8, <1>9, <1>10, <1>11

(* A step of an instance changes that instance alone. *)
Moved(p) == \E j \in Instance : proc' = [proc EXCEPT ![p] = j]

LEMMA OneMoves ==
  ASSUME TypeOK, PointInv, NEW p \in Procs, Step(p)
  PROVE  Moved(p)
<1> DEFINE i == proc[p]
<1>0. i \in Instance /\ Off \in Instance
  BY SMTT(30) DEF TypeOK, Instance, Points, Saving, Files, Off
<1> USE DEF TypeOK, Moved, Goto, Gone, At
<1>1. CASE Start(p)
  <2>1. ASSUME NEW o \in Options
        PROVE  /\ [Off EXCEPT !.pc = "look", !.opt = o] \in Instance
               /\ [Off EXCEPT !.pc = "creat", !.opt = o] \in Instance
    BY DEF Instance, Points, Saving, Files, Off
  <2> QED
    BY <1>0, <1>1, <2>1 DEF Start
<1>2. CASE Creat(p)
  <2>1. [i EXCEPT !.pc = "look"] \in Instance
    BY <1>0 DEF Instance, Points, Saving, Files
  <2> QED
    BY <1>0, <1>2, <2>1 DEF Creat
<1>3. CASE Look(p)
  <2>1. [i EXCEPT !.pc = "open"] \in Instance
    BY <1>0 DEF Instance, Points, Saving, Files
  <2>2. [i EXCEPT !.pc = "try"] \in Instance
    BY <1>0 DEF Instance, Points, Saving, Files
  <2>3. [i EXCEPT !.pc = "lock"] \in Instance
    BY <1>0 DEF Instance, Points, Saving, Files
  <2> QED
    BY <1>0, <1>3, <2>1, <2>2, <2>3 DEF Look
<1>4. CASE Lock(p)
  <2>1. [i EXCEPT !.pc = "try", !.locked = TRUE] \in Instance
    BY <1>0 DEF Instance, Points, Saving, Files
  <2> QED
    BY <1>0, <1>4, <2>1 DEF Lock
<1>5. CASE TryTemp(p)
  <2>1. [i EXCEPT !.pc = "open"] \in Instance
    BY <1>0 DEF Instance, Points, Saving, Files
  <2> QED
    BY <1>0, <1>5, <2>1 DEF TryTemp
<1>6. CASE Open(p)
  <2>1. [i EXCEPT !.pc = "unlock"] \in Instance
    BY <1>0 DEF Instance, Points, Saving, Files
  <2>2. dir["DATA"] # 0 => [i EXCEPT !.pc = "read", !.fd = dir["DATA"], !.core = Content("DATA")] \in Instance
    BY <1>0 DEF Instance, Points, Saving, Files, Content, Names
  <2> QED
    BY <1>0, <1>6, <2>1, <2>2 DEF Open
<1>7. CASE Read(p)
  <2>0. disk[i.fd] \in SUBSET Nat
    BY <1>7, <1>0 DEF PointInv, PointOf, Read, Instance, Files
  <2> DEFINE was == i.core
             now == disk[i.fd]
             reads == IF was = {} THEN {{}} ELSE IF now = was THEN {was}
                      ELSE IF now = {} THEN {} ELSE {Torn, now}
             next(c) == [i EXCEPT !.core = c, !.fd = 0,
                                  !.pc = IF i.opt = "read" THEN "print" ELSE "menu"]
             save(c) == [i EXCEPT !.core = c, !.fd = 0, !.pc = "saveTemp",
                                  !.after = "menu"]
  <2>1. ASSUME NEW c \in SUBSET Nat
        PROVE  next(c) \in Instance
    BY ZenonT(60), <1>0 DEF Instance, Points, Files
  <2>2. ASSUME NEW c \in SUBSET Nat
        PROVE  save(c) \in Instance
    BY <1>0 DEF Instance, Points, Saving, Files
  <2>3. ASSUME NEW c \in reads
        PROVE  c \in SUBSET Nat
    <3>1. i.core \in SUBSET Nat /\ Torn \in SUBSET Nat
      BY <1>0 DEF Instance, Torn
    <3> QED
      BY <2>0, <3>1
  <2>4. \/ \E c \in reads : proc' = [proc EXCEPT ![p] = next(c)]
        \/ \E c \in reads : proc' = [proc EXCEPT ![p] = save(c)]
        \/ proc' = [proc EXCEPT ![p] = Off]
    BY <1>7 DEF Read
  <2> HIDE DEF next, save, reads
  <2> QED
    BY <1>0, <2>1, <2>2, <2>3, <2>4
<1>8. CASE PrintEntries(p)
  BY <1>0, <1>8 DEF PrintEntries
<1>9. CASE Edit(p)
  <2>1. edits' \in Nat
    BY <1>9 DEF Edit
  <2>2. [i EXCEPT !.core = i.core \cup {edits'}, !.changed = TRUE] \in Instance
    BY <1>0, <2>1 DEF Instance
  <2> QED
    BY <1>0, <1>9, <2>2 DEF Edit
<1>10. CASE Save(p)
  <2>1. [i EXCEPT !.pc = "saveTemp", !.after = "menu"] \in Instance
    BY <1>0 DEF Instance, Points, Saving, Files
  <2> QED
    BY <1>0, <1>10, <2>1 DEF Save
<1>11. CASE Quit(p)
  <2>1. [i EXCEPT !.pc = "saveTemp", !.after = "unlock"] \in Instance
    BY <1>0 DEF Instance, Points, Saving, Files
  <2>2. [i EXCEPT !.pc = "unlock"] \in Instance
    BY <1>0 DEF Instance, Points, Saving, Files
  <2> QED
    BY <1>0, <1>11, <2>1, <2>2 DEF Quit, SaveAndExit
<1>12. CASE user_eof(p)
  <2>1. [i EXCEPT !.pc = "saveTemp", !.after = "unlock"] \in Instance
    BY <1>0 DEF Instance, Points, Saving, Files
  <2>2. [i EXCEPT !.pc = "unlock"] \in Instance
    BY <1>0 DEF Instance, Points, Saving, Files
  <2> QED
    BY <1>0, <1>12, <2>1, <2>2 DEF user_eof, SaveAndExit
<1>13. CASE SaveTemp(p)
  <2>1. PICK n \in Inodes : OpenedAs(p, "TEMP", n) /\ dir'["TEMP"] = n
    BY <1>13, Opened DEF SaveTemp, Names
  <2>2. [i EXCEPT !.pc = "saveCopy", !.temp = n] \in Instance
    BY <1>0 DEF Instance, Points, Saving, Files
  <2> QED
    BY <1>13, <2>1, <2>2 DEF SaveTemp
<1>14. CASE SaveCopy(p)
  <2>1. PICK n \in Inodes : OpenedAs(p, "COPY", n) /\ dir'["COPY"] = n
    BY <1>14, Opened DEF SaveCopy, Names
  <2>2. [i EXCEPT !.pc = "write", !.copy = n] \in Instance
    BY <1>0 DEF Instance, Points, Saving, Files
  <2> QED
    BY <1>14, <2>1, <2>2 DEF SaveCopy
<1>15. CASE WriteRolo(p)
  <2>1. [i EXCEPT !.pc = "closeTemp"] \in Instance
    BY <1>0 DEF Instance, Points, Saving, Files
  <2> QED
    BY <1>0, <1>15, <2>1 DEF WriteRolo
<1>16. CASE CloseTemp(p)
  <2>1. [i EXCEPT !.pc = "closeCopy", !.temp = 0] \in Instance
    BY <1>0 DEF Instance, Points, Saving, Files
  <2>2. [i EXCEPT !.pc = "unlock", !.temp = 0] \in Instance
    BY <1>0 DEF Instance, Points, Saving, Files
  <2> QED
    BY <1>0, <1>16, <2>1, <2>2 DEF CloseTemp, Close, Flushed
<1>17. CASE CloseCopy(p)
  <2>1. [i EXCEPT !.pc = "backup", !.copy = 0] \in Instance
    BY <1>0 DEF Instance, Points, Saving, Files
  <2>2. [i EXCEPT !.pc = "unlock", !.copy = 0] \in Instance
    BY <1>0 DEF Instance, Points, Saving, Files
  <2> QED
    BY <1>0, <1>17, <2>1, <2>2 DEF CloseCopy, Close, Flushed
<1>18. CASE Backup(p)
  <2>1. [i EXCEPT !.pc = "unlock"] \in Instance
    BY <1>0 DEF Instance, Points, Saving, Files
  <2>2. [i EXCEPT !.pc = "install"] \in Instance
    BY <1>0 DEF Instance, Points, Saving, Files
  <2> QED
    BY <1>0, <1>18, <2>1, <2>2 DEF Backup
<1>19. CASE Install(p)
  <2>1. [i EXCEPT !.pc = "unlock"] \in Instance
    BY <1>0 DEF Instance, Points, Saving, Files
  <2>2. [i EXCEPT !.pc = i.after, !.after = None, !.changed = FALSE] \in Instance
    BY <1>0, <1>19 DEF Instance, Points, Saving, Files, PointInv, PointOf, Install
  <2> QED
    BY <1>0, <1>19, <2>1, <2>2 DEF Install
<1>20. CASE Unlock(p)
  <2>1. [i EXCEPT !.pc = "exit"] \in Instance
    BY <1>0 DEF Instance, Points, Saving, Files
  <2> QED
    BY <1>0, <1>20, <2>1 DEF Unlock
<1>21. CASE Exit(p)
  BY <1>0, <1>21 DEF Exit
<1>22. CASE user_interrupt(p)
  <2>1. [i EXCEPT !.pc = "handler"] \in Instance
    BY <1>0 DEF Instance, Points, Saving, Files
  <2> QED
    BY <1>0, <1>22, <2>1 DEF user_interrupt
<1>23. CASE Crash(p)
  BY <1>0, <1>23 DEF Crash
<1>25. CASE FlushTemp(p) \/ FlushCopy(p)
  <2>1. /\ [i EXCEPT !.temp = 0] \in Instance
        /\ [i EXCEPT !.copy = 0] \in Instance
    BY <1>0 DEF Instance, Files
  <2> QED
    BY <1>0, <1>25, <2>1 DEF FlushTemp, FlushCopy, Flush
<1> QED
  BY <1>1, <1>2, <1>3, <1>4, <1>5, <1>6, <1>7, <1>8, <1>9, <1>10, <1>11, <1>12,
     <1>13, <1>14, <1>15, <1>16, <1>17, <1>18, <1>19, <1>20, <1>21, <1>22, <1>23,
     <1>25
  DEF Step

(* Every variable keeps its type. *)
LEMMA TypeStep ==
  ASSUME TypeOK, PointInv, Next
  PROVE  TypeOK'
<1> DEFINE RestOK == /\ disk \in [Inodes -> SUBSET Nat] /\ mixed \subseteq Inodes
                     /\ dir \in [Names -> Files] /\ lock \in Procs \cup {None}
                     /\ edits \in Nat /\ starts \in Nat /\ saved \subseteq Nat
                     /\ past \subseteq Events
<1>0. ASSUME NEW p \in Procs, Step(p)
      PROVE  proc' \in [Procs -> Instance]
  BY <1>0, OneMoves DEF TypeOK, Moved
<1> USE DEF TypeOK, Events
<1>1. ASSUME NEW p \in Procs, Start(p)
      PROVE  RestOK'
  BY <1>1 DEF Start
<1>2. ASSUME NEW p \in Procs, Creat(p)
      PROVE  RestOK'
  <2>1. PICK n \in Inodes : OpenedAs(p, "DATA", n) /\ dir'["DATA"] = n
    BY <1>2, Opened DEF Creat, Names
  <2> QED
    BY <1>2, <2>1 DEF Creat, OpenedAs, Files, Goto
<1>3. ASSUME NEW p \in Procs, Look(p)
      PROVE  RestOK'
  BY <1>3 DEF Look
<1>4. ASSUME NEW p \in Procs, Lock(p)
      PROVE  RestOK'
  BY <1>4 DEF Lock
<1>5. ASSUME NEW p \in Procs, TryTemp(p)
      PROVE  RestOK'
  <2>1. PICK n \in Inodes : OpenedAs(p, "TEMP", n) /\ dir'["TEMP"] = n
    BY <1>5, Opened DEF TryTemp, Names
  <2> QED
    BY <1>5, <2>1 DEF TryTemp, OpenedAs, Files, Goto
<1>6. ASSUME NEW p \in Procs, Open(p)
      PROVE  RestOK'
  BY <1>6 DEF Open
<1>7. ASSUME NEW p \in Procs, Read(p)
      PROVE  RestOK'
  BY <1>7 DEF Read
<1>8. ASSUME NEW p \in Procs, PrintEntries(p)
      PROVE  RestOK'
  BY <1>8 DEF PrintEntries
<1>9. ASSUME NEW p \in Procs, Edit(p)
      PROVE  RestOK'
  BY <1>9 DEF Edit
<1>10. ASSUME NEW p \in Procs, Save(p)
      PROVE  RestOK'
  BY <1>10 DEF Save
<1>11. ASSUME NEW p \in Procs, Quit(p)
      PROVE  RestOK'
  BY <1>11 DEF Quit, SaveAndExit
<1>12. ASSUME NEW p \in Procs, user_eof(p)
      PROVE  RestOK'
  BY <1>12 DEF user_eof, SaveAndExit
<1>13. ASSUME NEW p \in Procs, SaveTemp(p)
      PROVE  RestOK'
  <2>1. PICK n \in Inodes : OpenedAs(p, "TEMP", n) /\ dir'["TEMP"] = n
    BY <1>13, Opened DEF SaveTemp, Names
  <2> QED
    BY <1>13, <2>1 DEF SaveTemp, OpenedAs, Files, Goto
<1>14. ASSUME NEW p \in Procs, SaveCopy(p)
      PROVE  RestOK'
  <2>1. PICK n \in Inodes : OpenedAs(p, "COPY", n) /\ dir'["COPY"] = n
    BY <1>14, Opened DEF SaveCopy, Names
  <2> QED
    BY <1>14, <2>1 DEF SaveCopy, OpenedAs, Files, Goto
<1>15. ASSUME NEW p \in Procs, WriteRolo(p)
      PROVE  RestOK'
  <2>1. /\ proc[p].core \in SUBSET Nat /\ Torn \in SUBSET Nat
        /\ "DATA" \in Names /\ "TEMP" \in Names /\ "BAK" \in Names
    BY DEF Instance, Torn, Names
  <2> QED
    BY <1>15, <2>1 DEF WriteRolo, Files
<1>16. ASSUME NEW p \in Procs, CloseTemp(p)
      PROVE  RestOK'
  <2>1. /\ proc[p].core \in SUBSET Nat /\ Torn \in SUBSET Nat
        /\ "DATA" \in Names /\ "TEMP" \in Names /\ "BAK" \in Names
    BY DEF Instance, Torn, Names
  <2> QED
    BY <1>16, <2>1 DEF CloseTemp, Close, Flushed, Files
<1>17. ASSUME NEW p \in Procs, CloseCopy(p)
      PROVE  RestOK'
  <2>1. /\ proc[p].core \in SUBSET Nat /\ Torn \in SUBSET Nat
        /\ "DATA" \in Names /\ "TEMP" \in Names /\ "BAK" \in Names
    BY DEF Instance, Torn, Names
  <2> QED
    BY <1>17, <2>1 DEF CloseCopy, Close, Flushed, Files
<1>18. ASSUME NEW p \in Procs, Backup(p)
      PROVE  RestOK'
  <2>1. /\ proc[p].core \in SUBSET Nat /\ Torn \in SUBSET Nat
        /\ "DATA" \in Names /\ "TEMP" \in Names /\ "BAK" \in Names
    BY DEF Instance, Torn, Names
  <2> QED
    BY <1>18, <2>1 DEF Backup, Files
<1>19. ASSUME NEW p \in Procs, Install(p)
      PROVE  RestOK'
  <2>1. /\ proc[p].core \in SUBSET Nat /\ Torn \in SUBSET Nat
        /\ "DATA" \in Names /\ "TEMP" \in Names /\ "BAK" \in Names
    BY DEF Instance, Torn, Names
  <2> QED
    BY <1>19, <2>1 DEF Install, Files
<1>20. ASSUME NEW p \in Procs, Unlock(p)
      PROVE  RestOK'
  BY <1>20 DEF Unlock
<1>21. ASSUME NEW p \in Procs, Exit(p)
      PROVE  RestOK'
  BY <1>21 DEF Exit
<1>22. ASSUME NEW p \in Procs, user_interrupt(p)
      PROVE  RestOK'
  BY <1>22 DEF user_interrupt
<1>23. ASSUME NEW p \in Procs, Crash(p)
      PROVE  RestOK'
  BY <1>23 DEF Crash
<1>24. CASE RemoveLock
  BY <1>24 DEF RemoveLock
<1>25. ASSUME NEW p \in Procs, FlushTemp(p) \/ FlushCopy(p)
      PROVE  RestOK'
  <2>1. FlushAs(p)
    BY <1>25, Effects
  <2>2. PICK c \in SUBSET Nat : \/ disk' = [disk EXCEPT ![proc[p].temp] = c]
                                \/ disk' = [disk EXCEPT ![proc[p].copy] = c]
    BY <2>1 DEF FlushAs
  <2>3. disk' \in [Inodes -> SUBSET Nat]
    BY <2>2
  <2>4. UNCHANGED <<mixed, dir, lock, edits, saved, past>>
    BY <2>1 DEF FlushAs
  <2>5. starts' = starts
    BY <1>25 DEF FlushTemp, FlushCopy, Flush
  <2> QED
    BY <2>3, <2>4, <2>5
<1> QED
  BY <1>0, <1>1, <1>2, <1>3, <1>4, <1>5, <1>6, <1>7, <1>8, <1>9, <1>10, <1>11,
     <1>12, <1>13, <1>14, <1>15, <1>16, <1>17, <1>18, <1>19, <1>20, <1>21, <1>22,
     <1>23, <1>24, <1>25
  DEF Next, Step, RemoveLock

(* An instance that has been started holds nothing. *)
LEMMA Started ==
  ASSUME TypeOK, NEW p \in Procs, Start(p)
  PROVE  /\ \A q \in Procs \ {p} : proc'[q] = proc[q]
         /\ Bare(p)' /\ proc'[p].pc \in {"off", "look", "creat"}
<1>1. PICK o \in Options :
        \/ proc' = [proc EXCEPT ![p] = [Off EXCEPT !.pc = "look", !.opt = o]]
        \/ proc' = [proc EXCEPT ![p] = [Off EXCEPT !.pc = "creat", !.opt = o]]
        \/ proc' = [proc EXCEPT ![p] = Off]
  BY DEF Start, Gone
<1>2. \A q \in Procs \ {p} : proc'[q] = proc[q]
  BY <1>1 DEF TypeOK
<1>3. \/ proc'[p] = [Off EXCEPT !.pc = "look", !.opt = o]
      \/ proc'[p] = [Off EXCEPT !.pc = "creat", !.opt = o]
      \/ proc'[p] = Off
  BY <1>1 DEF TypeOK
<1>4. ASSUME NEW x, x = [Off EXCEPT !.pc = "look", !.opt = o]
      PROVE  x.locked = FALSE /\ x.pc = "look" /\ x.temp = 0 /\ x.copy = 0 /\ x.fd = 0
             /\ x.core = {}
  BY <1>4 DEF Off
<1>5. ASSUME NEW x, x = [Off EXCEPT !.pc = "creat", !.opt = o]
      PROVE  x.locked = FALSE /\ x.pc = "creat" /\ x.temp = 0 /\ x.copy = 0 /\ x.fd = 0
             /\ x.core = {}
  BY <1>5 DEF Off
<1>6. ASSUME NEW x, x = Off
      PROVE  x.locked = FALSE /\ x.pc = "off" /\ x.temp = 0 /\ x.copy = 0 /\ x.fd = 0
             /\ x.core = {}
  BY <1>6 DEF Off
<1> QED
  BY <1>2, <1>3, <1>4, <1>5, <1>6 DEF Bare

(* An instance that has read goes on with what it has read, or is gone     *)
(* because the file has changed.                                           *)
HasReadAs(p) ==
  /\ \A q \in Procs \ {p} : proc'[q] = proc[q]
  /\ \/ Bare(p)' /\ proc'[p].pc = "off" /\ disk[proc[p].fd] # proc[p].core
     \/ /\ proc'[p].locked = proc[p].locked /\ proc'[p].opt = proc[p].opt
        /\ proc'[p].pc \in {"print", "menu", "saveTemp"}
        /\ proc'[p].pc = "print" <=> proc[p].opt = "read"
        /\ proc'[p].pc = "saveTemp" => proc'[p].after = "menu"
        /\ proc'[p].temp = proc[p].temp /\ proc'[p].copy = proc[p].copy
        /\ proc'[p].fd = 0
        /\ \/ proc[p].core = {} /\ proc'[p].core = {}
           \/ disk[proc[p].fd] = proc[p].core /\ proc'[p].core = proc[p].core
           \/ disk[proc[p].fd] \notin {{}, proc[p].core}

LEMMA HasRead ==
  ASSUME TypeOK, NEW p \in Procs, Read(p)
  PROVE  HasReadAs(p)
<1> DEFINE i == proc[p]
           now == disk[i.fd]
           was == i.core
           got(c) == \/ (was = {} /\ c = {}) \/ (now = was /\ c = was)
                     \/ now \notin {{}, was}
           after(c) == [proc EXCEPT ![p] = [@ EXCEPT !.core = c, !.fd = 0,
                          !.pc = IF proc[p].opt = "read" THEN "print" ELSE "menu"]]
           saving(c) == [proc EXCEPT ![p] = [@ EXCEPT !.core = c, !.fd = 0,
                           !.pc = "saveTemp", !.after = "menu"]]
<1>1. PICK c :
        \/ proc' = after(c) /\ got(c)
        \/ proc' = saving(c) /\ got(c) /\ i.opt # "read"
        \/ proc' = [proc EXCEPT ![p] = Off] /\ now # was
  BY DEF Read, Gone
<1>2. i \in Instance /\ p \in DOMAIN proc
  BY DEF TypeOK
<1>3. \A q \in Procs \ {p} : proc'[q] = proc[q]
  BY <1>1 DEF TypeOK
<1>4. ASSUME proc' = after(c)
      PROVE  proc'[p] = [i EXCEPT !.core = c, !.fd = 0, !.pc =
                                  IF i.opt = "read" THEN "print" ELSE "menu"]
  BY <1>2, <1>4
<1>5. ASSUME proc' = saving(c)
      PROVE  proc'[p] = [i EXCEPT !.core = c, !.fd = 0, !.pc = "saveTemp",
                                  !.after = "menu"]
  BY <1>2, <1>5
<1>6. CASE proc' = after(c) /\ got(c)
  BY <1>2, <1>3, <1>4, <1>6 DEF Instance, HasReadAs
<1>7. CASE proc' = saving(c) /\ got(c) /\ i.opt # "read"
  BY <1>2, <1>3, <1>5, <1>7 DEF Instance, HasReadAs
<1>8. CASE proc' = [proc EXCEPT ![p] = Off] /\ now # was
  <2>1. Bare(p)' /\ proc'[p].pc = "off"
    BY SMTT(30), <1>2, <1>8 DEF Off, Bare
  <2> QED
    BY <1>3, <1>8, <2>1 DEF HasReadAs
<1> HIDE DEF after, saving, got
<1> QED
  BY <1>1, <1>6, <1>7, <1>8 DEF HasReadAs

(* An instance that moves on holds what belongs to its point. *)
LEMMA PointStep ==
  ASSUME TypeOK, PointInv, Next
  PROVE  PointInv'
<1>0. ASSUME NEW p \in Procs, Step(p), PointOf(p)'
      PROVE  PointInv'
  BY <1>0, OneMoves DEF PointInv, PointOf, Moved, TypeOK
<1> USE DEF PointInv, PointOf, TypeOK, Instance, Saving, Off, None, Gone, Goto, At, Leaving
<1>1. ASSUME NEW p \in Procs, Start(p)
      PROVE  PointOf(p)'
  <2>1. Bare(p)' /\ proc'[p].pc \in {"off", "look", "creat"}
    BY <1>1, Started
  <2> HIDE DEF TypeOK, Instance
  <2> QED
    BY <2>1 DEF Bare
<1>2. ASSUME NEW p \in Procs, Creat(p)
      PROVE  PointOf(p)'
  <2>1. PICK n \in Inodes : OpenedAs(p, "DATA", n) /\ dir'["DATA"] = n
    BY <1>2, Opened DEF Creat, Names
  <2>2. n # 0
    BY DEF Inodes
  <2> QED
    BY <1>2, <2>1, <2>2 DEF Creat
<1>3. ASSUME NEW p \in Procs, Look(p)
      PROVE  PointOf(p)'
  BY <1>3 DEF Look
<1>4. ASSUME NEW p \in Procs, Lock(p)
      PROVE  PointOf(p)'
  <2>1. LockAs(p)
    BY <1>4, Effects
  <2> QED
    BY <2>1 DEF LockAs, Lands, Bare
<1>5. ASSUME NEW p \in Procs, TryTemp(p)
      PROVE  PointOf(p)'
  <2>1. PICK n \in Inodes : OpenedAs(p, "TEMP", n) /\ dir'["TEMP"] = n
    BY <1>5, Opened DEF TryTemp, Names
  <2>2. n # 0
    BY DEF Inodes
  <2> QED
    BY <1>5, <2>1, <2>2 DEF TryTemp
<1>6. ASSUME NEW p \in Procs, Open(p)
      PROVE  PointOf(p)'
  <2>1. OpenAs(p)
    BY <1>6, Effects
  <2> QED
    BY <2>1 DEF OpenAs, Lands
<1>7. ASSUME NEW p \in Procs, Read(p)
      PROVE  PointOf(p)'
  <2>1. PointOf(p) /\ proc[p].pc = "read"
    BY <1>7 DEF Read
  <2> HIDE DEF PointInv, TypeOK, Instance
  <2> QED
    BY SMTT(30), <1>7, <2>1, HasRead DEF HasReadAs, Bare
<1>8. ASSUME NEW p \in Procs, PrintEntries(p)
      PROVE  PointOf(p)'
  BY <1>8 DEF PrintEntries
<1>9. ASSUME NEW p \in Procs, Edit(p)
      PROVE  PointOf(p)'
  <2>1. EditAs(p)
    BY <1>9, Effects
  <2> QED
    BY <2>1 DEF EditAs, Lands
<1>10. ASSUME NEW p \in Procs, Save(p)
      PROVE  PointOf(p)'
  BY <1>10 DEF Save
<1>11. ASSUME NEW p \in Procs, Quit(p)
      PROVE  PointOf(p)'
  <2>1. LeaveAs(p)
    BY <1>11, Effects
  <2> QED
    BY <2>1 DEF LeaveAs, Lands
<1>12. ASSUME NEW p \in Procs, user_eof(p)
      PROVE  PointOf(p)'
  <2>1. LeaveAs(p)
    BY <1>12, Effects
  <2> QED
    BY <2>1 DEF LeaveAs, Lands
<1>13. ASSUME NEW p \in Procs, SaveTemp(p)
      PROVE  PointOf(p)'
  <2>1. PICK i \in Inodes : SaveTempAs(p, i)
    BY <1>13, Effects
  <2>2. i # 0
    BY DEF Inodes
  <2> QED
    BY <2>1, <2>2 DEF SaveTempAs, OpenedAs, Lands
<1>14. ASSUME NEW p \in Procs, SaveCopy(p)
      PROVE  PointOf(p)'
  <2>1. PICK i \in Inodes : SaveCopyAs(p, i)
    BY <1>14, Effects
  <2>2. i # 0
    BY DEF Inodes
  <2> QED
    BY <2>1, <2>2 DEF SaveCopyAs, OpenedAs, Lands
<1>15. ASSUME NEW p \in Procs, WriteRolo(p)
      PROVE  PointOf(p)'
  BY <1>15 DEF WriteRolo
<1>16. ASSUME NEW p \in Procs, CloseTemp(p)
      PROVE  PointOf(p)'
  <2>1. CloseTempAs(p)
    BY <1>16, Effects
  <2> QED
    BY <2>1 DEF CloseTempAs, Lands, Flushed
<1>17. ASSUME NEW p \in Procs, CloseCopy(p)
      PROVE  PointOf(p)'
  <2>1. CloseCopyAs(p)
    BY <1>17, Effects
  <2> QED
    BY <2>1 DEF CloseCopyAs, Lands, Flushed
<1>18. ASSUME NEW p \in Procs, Backup(p)
      PROVE  PointOf(p)'
  <2>1. \/ proc' = [proc EXCEPT ![p].pc = "unlock"]
        \/ proc' = [proc EXCEPT ![p].pc = "install"]
    BY <1>18 DEF Backup
  <2>2. PointOf(p) /\ proc[p].pc = "backup"
    BY <1>18 DEF Backup
  <2>3. CASE proc' = [proc EXCEPT ![p].pc = "unlock"]
    BY <2>2, <2>3
  <2>4. CASE proc' = [proc EXCEPT ![p].pc = "install"]
    BY <2>2, <2>4
  <2> QED
    BY <2>1, <2>3, <2>4
<1>19. ASSUME NEW p \in Procs, Install(p)
      PROVE  PointOf(p)'
  <2>1. InstallAs(p)
    BY <1>19, Effects
  <2> QED
    BY <2>1 DEF InstallAs, Lands
<1>20. ASSUME NEW p \in Procs, Unlock(p)
      PROVE  PointOf(p)'
  BY <1>20 DEF Unlock
<1>21. ASSUME NEW p \in Procs, Exit(p)
      PROVE  PointOf(p)'
  BY <1>21 DEF Exit
<1>22. ASSUME NEW p \in Procs, user_interrupt(p)
      PROVE  PointOf(p)'
  <2>1. InterruptAs(p)
    BY <1>22, Effects
  <2> QED
    BY <2>1 DEF InterruptAs, Bare, Lands
<1>23. ASSUME NEW p \in Procs, Crash(p)
      PROVE  PointOf(p)'
  BY <1>23 DEF Crash
<1>24. CASE RemoveLock
  BY <1>24 DEF RemoveLock
<1>25. ASSUME NEW p \in Procs, FlushTemp(p) \/ FlushCopy(p)
      PROVE  PointOf(p)'
  <2>1. FlushAs(p)
    BY <1>25, Effects
  <2> QED
    BY <2>1 DEF FlushAs, Lands
<1> QED
  BY <1>0, <1>1, <1>2, <1>3, <1>4, <1>5, <1>6, <1>7, <1>8, <1>9, <1>10, <1>11,
     <1>12, <1>13, <1>14, <1>15, <1>16, <1>17, <1>18, <1>19, <1>20, <1>21, <1>22,
     <1>23, <1>24, <1>25
  DEF Next, Step, RemoveLock

(* The lock file is made and taken away by the instance it belongs to. *)
LEMMA LockStep ==
  ASSUME TypeOK, PointInv, LockInv, Next
  PROVE  LockInv'
<1> USE DEF TypeOK, Instance, PointInv, PointOf, LockInv, Saving, Off, None,
            Gone, Goto, At, Leaving
<1>1. ASSUME NEW p \in Procs, Start(p)
      PROVE  LockInv'
  <2>1. /\ \A q \in Procs \ {p} : proc'[q] = proc[q]
        /\ Bare(p)' /\ proc'[p].pc \in {"off", "look", "creat"}
    BY <1>1, Started
  <2>2. lock' = lock /\ past' = past /\ ~ proc[p].locked
    BY <1>1 DEF Start
  <2> HIDE DEF TypeOK, Instance, PointInv, PointOf
  <2> QED
    BY <2>1, <2>2 DEF Bare
<1>2. ASSUME NEW p \in Procs, Creat(p)
      PROVE  LockInv'
  <2>1. PICK n \in Inodes : OpenedAs(p, "DATA", n) /\ dir'["DATA"] = n
    BY <1>2, Opened DEF Creat, Names
  <2> QED
    BY <1>2, <2>1, ProcsAssumption DEF Creat, OpenedAs
<1>3. ASSUME NEW p \in Procs, Look(p)
      PROVE  LockInv'
  BY <1>3, ProcsAssumption DEF Look
<1>4. ASSUME NEW p \in Procs, Lock(p)
      PROVE  LockInv'
  <2>1. LockAs(p)
    BY <1>4, Effects
  <2> QED
    BY <2>1, ProcsAssumption DEF LockAs, Lands, Bare
<1>5. ASSUME NEW p \in Procs, TryTemp(p)
      PROVE  LockInv'
  <2>1. PICK n \in Inodes : OpenedAs(p, "TEMP", n) /\ dir'["TEMP"] = n
    BY <1>5, Opened DEF TryTemp, Names
  <2> QED
    BY <1>5, <2>1, ProcsAssumption DEF TryTemp, OpenedAs
<1>6. ASSUME NEW p \in Procs, Open(p)
      PROVE  LockInv'
  <2>1. OpenAs(p)
    BY <1>6, Effects
  <2> QED
    BY <2>1, ProcsAssumption DEF OpenAs, Lands
<1>7. ASSUME NEW p \in Procs, Read(p)
      PROVE  LockInv'
  <2>1. /\ lock' = lock
        /\ past' = past \/ past' = past \cup {"changed"}
        /\ disk[proc[p].fd] # proc[p].core => "changed" \in past'
        /\ proc[p].pc = "read"
    BY <1>7 DEF Read
  <2>2. /\ \A q \in Procs \ {p} : proc'[q] = proc[q]
        /\ proc'[p].locked => proc[p].locked
        /\ proc[p].locked /\ ~ proc'[p].locked => "changed" \in past'
        /\ proc'[p].pc \notin {"exit", "handler"}
    BY <1>7, <2>1, HasRead DEF HasReadAs, Bare
  <2> HIDE DEF TypeOK, Instance, PointInv, PointOf
  <2> QED
    BY SMTT(30), <2>1, <2>2
<1>8. ASSUME NEW p \in Procs, PrintEntries(p)
      PROVE  LockInv'
  BY <1>8, ProcsAssumption DEF PrintEntries
<1>9. ASSUME NEW p \in Procs, Edit(p)
      PROVE  LockInv'
  <2>1. EditAs(p)
    BY <1>9, Effects
  <2> QED
    BY <2>1, ProcsAssumption DEF EditAs, Lands
<1>10. ASSUME NEW p \in Procs, Save(p)
      PROVE  LockInv'
  BY <1>10, ProcsAssumption DEF Save
<1>11. ASSUME NEW p \in Procs, Quit(p)
      PROVE  LockInv'
  <2>1. LeaveAs(p)
    BY <1>11, Effects
  <2>2. /\ \A q \in Procs \ {p} : proc'[q] = proc[q]
        /\ proc'[p].locked <=> proc[p].locked
        /\ ~ Leaving(p) /\ ~ Leaving(p)'
        /\ (lock' = lock /\ past' = past) \/ (lock' = None /\ past' = past \cup {"eof"})
    BY <2>1 DEF LeaveAs, Lands
  <2> HIDE DEF TypeOK, Instance, PointInv, PointOf, Leaving
  <2>3. \A q \in Procs : Leaving(q)' <=> Leaving(q)
    BY <2>2 DEF Leaving
  <2> QED
    BY <2>2, <2>3, ProcsAssumption
<1>12. ASSUME NEW p \in Procs, user_eof(p)
      PROVE  LockInv'
  <2>1. LeaveAs(p)
    BY <1>12, Effects
  <2>2. /\ \A q \in Procs \ {p} : proc'[q] = proc[q]
        /\ proc'[p].locked <=> proc[p].locked
        /\ ~ Leaving(p) /\ ~ Leaving(p)'
        /\ (lock' = lock /\ past' = past) \/ (lock' = None /\ past' = past \cup {"eof"})
    BY <2>1 DEF LeaveAs, Lands
  <2> HIDE DEF TypeOK, Instance, PointInv, PointOf, Leaving
  <2>3. \A q \in Procs : Leaving(q)' <=> Leaving(q)
    BY <2>2 DEF Leaving
  <2> QED
    BY <2>2, <2>3, ProcsAssumption
<1>13. ASSUME NEW p \in Procs, SaveTemp(p)
      PROVE  LockInv'
  <2>1. PICK i \in Inodes : SaveTempAs(p, i)
    BY <1>13, Effects
  <2>2. i # 0
    BY DEF Inodes
  <2> QED
    BY <2>1, <2>2, ProcsAssumption DEF SaveTempAs, OpenedAs, Lands
<1>14. ASSUME NEW p \in Procs, SaveCopy(p)
      PROVE  LockInv'
  <2>1. PICK i \in Inodes : SaveCopyAs(p, i)
    BY <1>14, Effects
  <2>2. i # 0
    BY DEF Inodes
  <2> QED
    BY <2>1, <2>2, ProcsAssumption DEF SaveCopyAs, OpenedAs, Lands
<1>15. ASSUME NEW p \in Procs, WriteRolo(p)
      PROVE  LockInv'
  BY <1>15, ProcsAssumption DEF WriteRolo
<1>16. ASSUME NEW p \in Procs, CloseTemp(p)
      PROVE  LockInv'
  <2>1. CloseTempAs(p)
    BY <1>16, Effects
  <2> QED
    BY <2>1, ProcsAssumption DEF CloseTempAs, Lands, Flushed
<1>17. ASSUME NEW p \in Procs, CloseCopy(p)
      PROVE  LockInv'
  <2>1. CloseCopyAs(p)
    BY <1>17, Effects
  <2> QED
    BY <2>1, ProcsAssumption DEF CloseCopyAs, Lands, Flushed
<1>18. ASSUME NEW p \in Procs, Backup(p)
      PROVE  LockInv'
  BY SMTT(30), <1>18, ProcsAssumption DEF Backup
<1>19. ASSUME NEW p \in Procs, Install(p)
      PROVE  LockInv'
  <2>1. InstallAs(p)
    BY <1>19, Effects
  <2> QED
    BY <2>1, ProcsAssumption DEF InstallAs, Lands
<1>20. ASSUME NEW p \in Procs, Unlock(p)
      PROVE  LockInv'
  BY <1>20, ProcsAssumption DEF Unlock
<1>21. ASSUME NEW p \in Procs, Exit(p)
      PROVE  LockInv'
  BY <1>21, ProcsAssumption DEF Exit
<1>22. ASSUME NEW p \in Procs, user_interrupt(p)
      PROVE  LockInv'
  <2>1. InterruptAs(p)
    BY <1>22, Effects
  <2> QED
    BY <2>1, ProcsAssumption DEF InterruptAs, Bare, Lands
<1>23. ASSUME NEW p \in Procs, Crash(p)
      PROVE  LockInv'
  BY <1>23, ProcsAssumption DEF Crash
<1>24. CASE RemoveLock
  BY <1>24, ProcsAssumption DEF RemoveLock
<1>25. ASSUME NEW p \in Procs, FlushTemp(p) \/ FlushCopy(p)
      PROVE  LockInv'
  <2>1. FlushAs(p)
    BY <1>25, Effects
  <2> QED
    BY <2>1, ProcsAssumption DEF FlushAs, Lands
<1> QED
  BY <1>1, <1>2, <1>3, <1>4, <1>5, <1>6, <1>7, <1>8, <1>9, <1>10, <1>11, <1>12,
     <1>13, <1>14, <1>15, <1>16, <1>17, <1>18, <1>19, <1>20, <1>21, <1>22, <1>23,
     <1>24, <1>25
  DEF Next, Step, RemoveLock

(* A file keeps to one name. *)
LEMMA DirStep ==
  ASSUME TypeOK, DirInv, Next
  PROVE  DirInv'
<1> USE DEF TypeOK, DirInv, Names, Goto, At, Gone
<1>1. ASSUME NEW p \in Procs, Start(p)
      PROVE  DirInv'
  BY <1>1 DEF Start
<1>2. ASSUME NEW p \in Procs, Creat(p)
      PROVE  DirInv'
  <2>1. PICK n \in Inodes : OpenedAs(p, "DATA", n) /\ dir'["DATA"] = n
    BY <1>2, Opened DEF Creat, Names
  <2> QED
    BY <1>2, <2>1 DEF Creat, OpenedAs
<1>3. ASSUME NEW p \in Procs, Look(p)
      PROVE  DirInv'
  BY <1>3 DEF Look
<1>4. ASSUME NEW p \in Procs, Lock(p)
      PROVE  DirInv'
  <2>1. LockAs(p)
    BY <1>4, Effects
  <2> QED
    BY <2>1 DEF LockAs, Lands, Bare
<1>5. ASSUME NEW p \in Procs, TryTemp(p)
      PROVE  DirInv'
  <2>1. PICK n \in Inodes : OpenedAs(p, "TEMP", n) /\ dir'["TEMP"] = n
    BY <1>5, Opened DEF TryTemp, Names
  <2> QED
    BY <1>5, <2>1 DEF TryTemp, OpenedAs
<1>6. ASSUME NEW p \in Procs, Open(p)
      PROVE  DirInv'
  <2>1. OpenAs(p)
    BY <1>6, Effects
  <2> QED
    BY <2>1 DEF OpenAs, Lands
<1>7. ASSUME NEW p \in Procs, Read(p)
      PROVE  DirInv'
  BY <1>7 DEF Read
<1>8. ASSUME NEW p \in Procs, PrintEntries(p)
      PROVE  DirInv'
  BY <1>8 DEF PrintEntries
<1>9. ASSUME NEW p \in Procs, Edit(p)
      PROVE  DirInv'
  <2>1. EditAs(p)
    BY <1>9, Effects
  <2> QED
    BY <2>1 DEF EditAs, Lands
<1>10. ASSUME NEW p \in Procs, Save(p)
      PROVE  DirInv'
  BY <1>10 DEF Save
<1>11. ASSUME NEW p \in Procs, Quit(p)
      PROVE  DirInv'
  <2>1. LeaveAs(p)
    BY <1>11, Effects
  <2> QED
    BY <2>1 DEF LeaveAs, Lands
<1>12. ASSUME NEW p \in Procs, user_eof(p)
      PROVE  DirInv'
  <2>1. LeaveAs(p)
    BY <1>12, Effects
  <2> QED
    BY <2>1 DEF LeaveAs, Lands
<1>13. ASSUME NEW p \in Procs, SaveTemp(p)
      PROVE  DirInv'
  <2>1. PICK i \in Inodes : SaveTempAs(p, i)
    BY <1>13, Effects
  <2>2. i # 0
    BY DEF Inodes
  <2> QED
    BY <2>1, <2>2 DEF SaveTempAs, OpenedAs, Lands
<1>14. ASSUME NEW p \in Procs, SaveCopy(p)
      PROVE  DirInv'
  <2>1. PICK i \in Inodes : SaveCopyAs(p, i)
    BY <1>14, Effects
  <2>2. i # 0
    BY DEF Inodes
  <2> QED
    BY <2>1, <2>2 DEF SaveCopyAs, OpenedAs, Lands
<1>15. ASSUME NEW p \in Procs, WriteRolo(p)
      PROVE  DirInv'
  BY <1>15 DEF WriteRolo
<1>16. ASSUME NEW p \in Procs, CloseTemp(p)
      PROVE  DirInv'
  <2>1. CloseTempAs(p)
    BY <1>16, Effects
  <2> QED
    BY <2>1 DEF CloseTempAs, Lands, Flushed
<1>17. ASSUME NEW p \in Procs, CloseCopy(p)
      PROVE  DirInv'
  <2>1. CloseCopyAs(p)
    BY <1>17, Effects
  <2> QED
    BY <2>1 DEF CloseCopyAs, Lands, Flushed
<1>18. ASSUME NEW p \in Procs, Backup(p)
      PROVE  DirInv'
  BY <1>18 DEF Backup
<1>19. ASSUME NEW p \in Procs, Install(p)
      PROVE  DirInv'
  <2>1. InstallAs(p)
    BY <1>19, Effects
  <2> QED
    BY <2>1 DEF InstallAs, Lands
<1>20. ASSUME NEW p \in Procs, Unlock(p)
      PROVE  DirInv'
  BY <1>20 DEF Unlock
<1>21. ASSUME NEW p \in Procs, Exit(p)
      PROVE  DirInv'
  BY <1>21 DEF Exit
<1>22. ASSUME NEW p \in Procs, user_interrupt(p)
      PROVE  DirInv'
  <2>1. InterruptAs(p)
    BY <1>22, Effects
  <2> QED
    BY <2>1 DEF InterruptAs, Bare, Lands
<1>23. ASSUME NEW p \in Procs, Crash(p)
      PROVE  DirInv'
  BY <1>23 DEF Crash
<1>24. CASE RemoveLock
  BY <1>24 DEF RemoveLock
<1>25. ASSUME NEW p \in Procs, FlushTemp(p) \/ FlushCopy(p)
      PROVE  DirInv'
  <2>1. FlushAs(p)
    BY <1>25, Effects
  <2> QED
    BY <2>1 DEF FlushAs, Lands
<1> QED
  BY <1>1, <1>2, <1>3, <1>4, <1>5, <1>6, <1>7, <1>8, <1>9, <1>10, <1>11, <1>12,
     <1>13, <1>14, <1>15, <1>16, <1>17, <1>18, <1>19, <1>20, <1>21, <1>22, <1>23,
     <1>24, <1>25
  DEF Next, Step, RemoveLock

(* Only an instance that has made the lock gets where files are written. *)
LEMMA WritersStep ==
  ASSUME TypeOK, PointInv, WritersInv, Next
  PROVE  WritersInv'
<1> USE DEF TypeOK, Instance, PointInv, PointOf, WritersInv, Writer, Shared,
            Saving, Off, None, Gone, Goto, At, Leaving
<1>1. ASSUME NEW p \in Procs, Start(p)
      PROVE  WritersInv'
  <2>1. /\ \A q \in Procs \ {p} : proc'[q] = proc[q]
        /\ Bare(p)' /\ proc'[p].pc \in {"off", "look", "creat"}
    BY <1>1, Started
  <2>2. lock' = lock /\ past' = past /\ ~ proc[p].locked
    BY <1>1 DEF Start
  <2> HIDE DEF TypeOK, Instance, PointInv, PointOf
  <2> QED
    BY <2>1, <2>2 DEF Bare
<1>2. ASSUME NEW p \in Procs, Creat(p)
      PROVE  WritersInv'
  <2>1. PICK n \in Inodes : OpenedAs(p, "DATA", n) /\ dir'["DATA"] = n
    BY <1>2, Opened DEF Creat, Names
  <2> QED
    BY <1>2, <2>1 DEF Creat, OpenedAs
<1>3. ASSUME NEW p \in Procs, Look(p)
      PROVE  WritersInv'
  BY <1>3 DEF Look
<1>4. ASSUME NEW p \in Procs, Lock(p)
      PROVE  WritersInv'
  <2>1. LockAs(p)
    BY <1>4, Effects
  <2> QED
    BY <2>1 DEF LockAs, Lands, Bare
<1>5. ASSUME NEW p \in Procs, TryTemp(p)
      PROVE  WritersInv'
  <2>1. PICK n \in Inodes : OpenedAs(p, "TEMP", n) /\ dir'["TEMP"] = n
    BY <1>5, Opened DEF TryTemp, Names
  <2>3. /\ proc'[p].locked = proc[p].locked /\ proc'[p].opt = proc[p].opt
        /\ \A q \in Procs \ {p} : proc'[q] = proc[q]
    BY <1>5 DEF TryTemp
  <2>4. proc[p].locked \/ proc[p].opt = "l"
    BY <1>5 DEF TryTemp
  <2>5. proc[p].opt = "l" => Shared'
    BY <1>5 DEF TryTemp
  <2>6. ~ Shared' => ~ Shared
    BY <1>5 DEF TryTemp
  <2> HIDE DEF Shared
  <2> QED
    BY <1>5, <2>3, <2>4, <2>5, <2>6
<1>6. ASSUME NEW p \in Procs, Open(p)
      PROVE  WritersInv'
  <2>1. OpenAs(p)
    BY <1>6, Effects
  <2> QED
    BY <2>1 DEF OpenAs, Lands
<1>7. ASSUME NEW p \in Procs, Read(p)
      PROVE  WritersInv'
  <2>1. /\ lock' = lock
        /\ past' = past \/ past' = past \cup {"changed"}
        /\ disk[proc[p].fd] # proc[p].core => "changed" \in past'
        /\ PointOf(p) /\ proc[p].pc = "read"
    BY <1>7 DEF Read
  <2> HIDE DEF TypeOK, Instance, PointInv
  <2> QED
    BY SMTT(30), <1>7, <2>1, HasRead DEF HasReadAs, Bare
<1>8. ASSUME NEW p \in Procs, PrintEntries(p)
      PROVE  WritersInv'
  BY <1>8 DEF PrintEntries
<1>9. ASSUME NEW p \in Procs, Edit(p)
      PROVE  WritersInv'
  <2>1. EditAs(p)
    BY <1>9, Effects
  <2> QED
    BY <2>1 DEF EditAs, Lands
<1>10. ASSUME NEW p \in Procs, Save(p)
      PROVE  WritersInv'
  BY <1>10 DEF Save
<1>11. ASSUME NEW p \in Procs, Quit(p)
      PROVE  WritersInv'
  <2>1. LeaveAs(p)
    BY <1>11, Effects
  <2> QED
    BY <2>1 DEF LeaveAs, Lands
<1>12. ASSUME NEW p \in Procs, user_eof(p)
      PROVE  WritersInv'
  <2>1. LeaveAs(p)
    BY <1>12, Effects
  <2> QED
    BY <2>1 DEF LeaveAs, Lands
<1>13. ASSUME NEW p \in Procs, SaveTemp(p)
      PROVE  WritersInv'
  <2>1. PICK i \in Inodes : SaveTempAs(p, i)
    BY <1>13, Effects
  <2>2. i # 0
    BY DEF Inodes
  <2> QED
    BY <2>1, <2>2 DEF SaveTempAs, OpenedAs, Lands
<1>14. ASSUME NEW p \in Procs, SaveCopy(p)
      PROVE  WritersInv'
  <2>1. PICK i \in Inodes : SaveCopyAs(p, i)
    BY <1>14, Effects
  <2>2. i # 0
    BY DEF Inodes
  <2> QED
    BY <2>1, <2>2 DEF SaveCopyAs, OpenedAs, Lands
<1>15. ASSUME NEW p \in Procs, WriteRolo(p)
      PROVE  WritersInv'
  BY <1>15 DEF WriteRolo
<1>16. ASSUME NEW p \in Procs, CloseTemp(p)
      PROVE  WritersInv'
  <2>1. CloseTempAs(p)
    BY <1>16, Effects
  <2> QED
    BY <2>1 DEF CloseTempAs, Lands, Flushed
<1>17. ASSUME NEW p \in Procs, CloseCopy(p)
      PROVE  WritersInv'
  <2>1. CloseCopyAs(p)
    BY <1>17, Effects
  <2> QED
    BY <2>1 DEF CloseCopyAs, Lands, Flushed
<1>18. ASSUME NEW p \in Procs, Backup(p)
      PROVE  WritersInv'
  BY <1>18 DEF Backup
<1>19. ASSUME NEW p \in Procs, Install(p)
      PROVE  WritersInv'
  <2>1. InstallAs(p)
    BY <1>19, Effects
  <2> QED
    BY <2>1 DEF InstallAs, Lands
<1>20. ASSUME NEW p \in Procs, Unlock(p)
      PROVE  WritersInv'
  BY <1>20 DEF Unlock
<1>21. ASSUME NEW p \in Procs, Exit(p)
      PROVE  WritersInv'
  BY <1>21 DEF Exit
<1>22. ASSUME NEW p \in Procs, user_interrupt(p)
      PROVE  WritersInv'
  <2>1. InterruptAs(p)
    BY <1>22, Effects
  <2> QED
    BY <2>1 DEF InterruptAs, Bare, Lands
<1>23. ASSUME NEW p \in Procs, Crash(p)
      PROVE  WritersInv'
  BY <1>23 DEF Crash
<1>24. CASE RemoveLock
  BY <1>24 DEF RemoveLock
<1>25. ASSUME NEW p \in Procs, FlushTemp(p) \/ FlushCopy(p)
      PROVE  WritersInv'
  <2>1. FlushAs(p)
    BY <1>25, Effects
  <2> QED
    BY <2>1 DEF FlushAs, Lands
<1> QED
  BY <1>1, <1>2, <1>3, <1>4, <1>5, <1>6, <1>7, <1>8, <1>9, <1>10, <1>11, <1>12,
     <1>13, <1>14, <1>15, <1>16, <1>17, <1>18, <1>19, <1>20, <1>21, <1>22, <1>23,
     <1>24, <1>25
  DEF Next, Step, RemoveLock

(* What has happened stays so. *)
LEMMA PastGrows ==
  ASSUME Next
  PROVE  past \subseteq past' /\ (~ Shared' => ~ Shared)
<1>1. ASSUME NEW p \in Procs, Step(p)
      PROVE  past \subseteq past'
  <2>1. CASE Start(p)
    BY <2>1 DEF Start
  <2>2. CASE Creat(p)
    BY <2>2 DEF Creat
  <2>3. CASE Look(p)
    BY <2>3 DEF Look
  <2>4. CASE Lock(p)
    BY <2>4 DEF Lock
  <2>5. CASE TryTemp(p)
    BY <2>5 DEF TryTemp
  <2>6. CASE Open(p)
    BY <2>6 DEF Open
  <2>7. CASE Read(p)
    BY <2>7 DEF Read
  <2>8. CASE PrintEntries(p)
    BY <2>8 DEF PrintEntries
  <2>9. CASE Edit(p)
    BY <2>9 DEF Edit
  <2>10. CASE Save(p)
    BY <2>10 DEF Save
  <2>11. CASE Quit(p)
    BY <2>11 DEF Quit
  <2>12. CASE user_eof(p)
    BY <2>12 DEF user_eof
  <2>13. CASE SaveTemp(p)
    BY <2>13 DEF SaveTemp
  <2>14. CASE SaveCopy(p)
    BY <2>14 DEF SaveCopy
  <2>15. CASE WriteRolo(p)
    BY <2>15 DEF WriteRolo
  <2>16. CASE CloseTemp(p)
    BY <2>16 DEF CloseTemp, Close
  <2>17. CASE CloseCopy(p)
    BY <2>17 DEF CloseCopy, Close
  <2>18. CASE Backup(p)
    BY <2>18 DEF Backup
  <2>19. CASE Install(p)
    BY <2>19 DEF Install
  <2>20. CASE Unlock(p)
    BY <2>20 DEF Unlock
  <2>21. CASE Exit(p)
    BY <2>21 DEF Exit
  <2>22. CASE user_interrupt(p)
    BY <2>22 DEF user_interrupt
  <2>23. CASE Crash(p)
    BY <2>23 DEF Crash
  <2>24. CASE FlushTemp(p) \/ FlushCopy(p)
    BY <2>24 DEF FlushTemp, FlushCopy, Flush
  <2> QED
    BY <1>1, <2>1, <2>2, <2>3, <2>4, <2>5, <2>6, <2>7, <2>8, <2>9, <2>10, <2>11,
       <2>12,
       <2>13, <2>14, <2>15, <2>16, <2>17, <2>18, <2>19, <2>20, <2>21, <2>22,
       <2>23, <2>24 DEF Step
<1>2. past \subseteq past'
  BY <1>1 DEF Next, RemoveLock
<1> QED
  BY <1>2 DEF Shared

(* While only lock holders write, one instance at a time does.             *)
LEMMA OneWriter ==
  ASSUME LockInv, WritersInv, ~ Shared,
         NEW p \in Procs, NEW q \in Procs, proc[p].locked, ~ Leaving(p), Writer(q)
  PROVE  p = q
<1>1. proc[q].locked /\ ~ Leaving(q)
  BY DEF WritersInv, Writer, Saving, Leaving
<1>2. past \cap {"eof", "late"} = {}
  BY DEF Shared
<1> QED
  BY <1>1, <1>2 DEF LockInv

(* Files are opened and renamed by one instance, and readers have others.  *)
LEMMA FilesStep ==
  ASSUME TypeOK, PointInv, LockInv, WritersInv, DirInv, FilesInv, OpenInv, Next
  PROVE  FilesInv'
<1> DEFINE Goal == \A q \in Procs : FilesOf(q)'
<1> SUFFICES ASSUME ~ Shared'
             PROVE  Goal
  BY DEF FilesInv
<1>a. ~ Shared /\ \A q \in Procs : FilesOf(q) /\ OpenOf(q)
  BY PastGrows DEF FilesInv, OpenInv
<1>b. /\ \A q \in Procs : PointOf(q)
      /\ dir["DATA"] # 0 => dir["DATA"] \notin {dir["TEMP"], dir["COPY"]}
      /\ dir["TEMP"] # 0 => dir["TEMP"] # dir["COPY"]
  BY DEF PointInv, DirInv, Names
<1> USE DEF TypeOK, Instance, FilesOf, Files, PointOf, Names, Held, Written,
            Writer, WritersInv, Saving, Off, None, Gone, Goto, At, Leaving
<1>1. ASSUME NEW p \in Procs, Start(p)
      PROVE  Goal
  <2>1. /\ \A q \in Procs \ {p} : proc'[q] = proc[q]
        /\ Bare(p)' /\ proc'[p].pc \in {"off", "look", "creat"}
    BY <1>1, Started
  <2>2. UNCHANGED <<disk, mixed, dir, saved, past>>
    BY <1>1 DEF Start
  <2> HIDE DEF TypeOK, Instance, PointOf
  <2> QED
    BY <1>a, <1>b, <2>1, <2>2 DEF Bare
<1>2. ASSUME NEW p \in Procs, Creat(p)
      PROVE  Goal
  <2>1. PICK n \in Inodes : OpenedAs(p, "DATA", n) /\ dir'["DATA"] = n
    BY <1>2, Opened DEF Creat, Names
  <2> QED
    BY <1>2, <2>1, <1>a, <1>b, OneWriter DEF Creat, OpenedAs
<1>3. ASSUME NEW p \in Procs, Look(p)
      PROVE  Goal
  BY <1>3, <1>a, <1>b, OneWriter DEF Look
<1>4. ASSUME NEW p \in Procs, Lock(p)
      PROVE  Goal
  <2>1. LockAs(p)
    BY <1>4, Effects
  <2> QED
    BY <2>1, <1>a, <1>b, OneWriter DEF LockAs, Lands, Bare
<1>5. ASSUME NEW p \in Procs, TryTemp(p)
      PROVE  Goal
  <2>1. PICK n \in Inodes : OpenedAs(p, "TEMP", n) /\ dir'["TEMP"] = n
    BY <1>5, Opened DEF TryTemp, Names
  <2>2. proc[p].locked /\ ~ Leaving(p)
    <3>1. proc[p].pc = "try" /\ (proc[p].opt = "l" => Shared')
      BY <1>5 DEF TryTemp, Shared
    <3> QED
      BY <1>b, <3>1
  <2> QED
    BY <1>5, <2>1, <2>2, <1>a, <1>b, OneWriter DEF TryTemp, OpenedAs
<1>6. ASSUME NEW p \in Procs, Open(p)
      PROVE  Goal
  <2>1. OpenAs(p)
    BY <1>6, Effects
  <2>2. CASE dir["DATA"] = 0
    BY <2>1, <2>2, <1>a, <1>b DEF OpenAs, Lands
  <2>3. CASE dir["DATA"] # 0
    <3>1. /\ \A q \in Procs \ {p} : proc'[q] = proc[q]
          /\ proc'[p].temp = 0 /\ proc'[p].copy = 0
          /\ proc'[p].fd = dir["DATA"] /\ proc'[p].core = disk[dir["DATA"]]
          /\ UNCHANGED <<disk, mixed, dir>>
      BY <2>1, <2>3, <1>b DEF OpenAs, Lands, Content
    <3> QED
      BY <3>1, <1>a, <1>b
  <2> QED
    BY <2>2, <2>3
<1>7. ASSUME NEW p \in Procs, Read(p)
      PROVE  Goal
  <2>1. /\ UNCHANGED <<disk, mixed, dir, saved>>
        /\ proc[p].pc = "read"
    BY <1>7 DEF Read
  <2>2. HasReadAs(p)
    BY <1>7, HasRead
  <2> HIDE DEF TypeOK, Instance
  <2> QED
    BY SMTT(30), <1>a, <1>b, <2>1, <2>2 DEF HasReadAs, Bare
<1>8. ASSUME NEW p \in Procs, PrintEntries(p)
      PROVE  Goal
  BY <1>8, <1>a, <1>b, OneWriter DEF PrintEntries
<1>9. ASSUME NEW p \in Procs, Edit(p)
      PROVE  Goal
  <2>1. EditAs(p)
    BY <1>9, Effects
  <2> QED
    BY <2>1, <1>a, <1>b, OneWriter DEF EditAs, Lands
<1>10. ASSUME NEW p \in Procs, Save(p)
      PROVE  Goal
  BY <1>10, <1>a, <1>b, OneWriter DEF Save
<1>11. ASSUME NEW p \in Procs, Quit(p)
      PROVE  Goal
  <2>1. LeaveAs(p)
    BY <1>11, Effects
  <2> QED
    BY <2>1, <1>a, <1>b, OneWriter DEF LeaveAs, Lands
<1>12. ASSUME NEW p \in Procs, user_eof(p)
      PROVE  Goal
  <2>1. LeaveAs(p)
    BY <1>12, Effects
  <2> QED
    BY <2>1, <1>a, <1>b, OneWriter DEF LeaveAs, Lands
<1>13. ASSUME NEW p \in Procs, SaveTemp(p)
      PROVE  Goal
  <2>1. PICK i \in Inodes : SaveTempAs(p, i)
    BY <1>13, Effects
  <2>2. i # 0
    BY DEF Inodes
  <2> QED
    BY <2>1, <2>2, <1>a, <1>b, OneWriter DEF SaveTempAs, OpenedAs, Lands
<1>14. ASSUME NEW p \in Procs, SaveCopy(p)
      PROVE  Goal
  <2>1. PICK i \in Inodes : SaveCopyAs(p, i)
    BY <1>14, Effects
  <2>2. i # 0
    BY DEF Inodes
  <2> QED
    BY <2>1, <2>2, <1>a, <1>b, OneWriter DEF SaveCopyAs, OpenedAs, Lands
<1>15. ASSUME NEW p \in Procs, WriteRolo(p)
      PROVE  Goal
  BY <1>15, <1>a, <1>b, OneWriter DEF WriteRolo
<1>16. ASSUME NEW p \in Procs, CloseTemp(p)
      PROVE  Goal
  <2>1. CloseTempAs(p)
    BY <1>16, Effects
  <2> QED
    BY <2>1, <1>a, <1>b, OneWriter DEF CloseTempAs, Lands, Flushed
<1>17. ASSUME NEW p \in Procs, CloseCopy(p)
      PROVE  Goal
  <2>1. CloseCopyAs(p)
    BY <1>17, Effects
  <2> QED
    BY <2>1, <1>a, <1>b, OneWriter DEF CloseCopyAs, Lands, Flushed
<1>18. ASSUME NEW p \in Procs, Backup(p)
      PROVE  Goal
  BY <1>18, <1>a, <1>b, OneWriter DEF Backup
<1>19. ASSUME NEW p \in Procs, Install(p)
      PROVE  Goal
  <2>1. InstallAs(p)
    BY <1>19, Effects
  <2>2. /\ disk' = disk /\ proc[p].pc = "install"
        /\ dir' = dir \/ dir' = [dir EXCEPT !["DATA"] = dir["TEMP"], !["TEMP"] = 0]
    BY <2>1 DEF InstallAs
  <2>3. \A q \in Procs : /\ proc'[q].temp = proc[q].temp /\ proc'[q].copy = proc[q].copy
                         /\ proc'[q].fd = proc[q].fd /\ proc'[q].core = proc[q].core
    BY <2>1 DEF InstallAs, Lands
  <2>4. \A q \in Procs : proc[q].temp = 0
    <3>1. PointOf(p) /\ OpenOf(p)
      BY <1>a, <1>b
    <3> HIDE DEF TypeOK, Instance
    <3>2. proc[p].temp = 0
      BY <2>2, <3>1
    <3>3. \A q \in Procs \ {p} : proc[q].temp = 0
      BY <2>2, <3>1 DEF OpenOf
    <3> QED
      BY <3>2, <3>3
  <2>5. dir'["COPY"] = dir["COPY"] /\ dir'["TEMP"] \in {0, dir["TEMP"]}
    BY <2>2
  <2> HIDE DEF TypeOK, Instance, PointOf, OpenOf
  <2> QED
    BY <2>2, <2>3, <2>4, <2>5, <1>a, <1>b
<1>20. ASSUME NEW p \in Procs, Unlock(p)
      PROVE  Goal
  BY <1>20, <1>a, <1>b, OneWriter DEF Unlock
<1>21. ASSUME NEW p \in Procs, Exit(p)
      PROVE  Goal
  BY <1>21, <1>a, <1>b, OneWriter DEF Exit
<1>22. ASSUME NEW p \in Procs, user_interrupt(p)
      PROVE  Goal
  <2>1. InterruptAs(p)
    BY <1>22, Effects
  <2> QED
    BY <2>1, <1>a, <1>b, OneWriter DEF InterruptAs, Bare, Lands
<1>23. ASSUME NEW p \in Procs, Crash(p)
      PROVE  Goal
  BY <1>23, <1>a, <1>b, OneWriter DEF Crash
<1>24. CASE RemoveLock
  BY <1>24, <1>a, <1>b DEF RemoveLock
<1>25. ASSUME NEW p \in Procs, FlushTemp(p) \/ FlushCopy(p)
      PROVE  Goal
  <2>1. FlushAs(p)
    BY <1>25, Effects
  <2> QED
    BY <2>1, <1>a, <1>b, OneWriter DEF FlushAs, Lands
<1> QED
  BY <1>1, <1>2, <1>3, <1>4, <1>5, <1>6, <1>7, <1>8, <1>9, <1>10, <1>11, <1>12,
     <1>13, <1>14, <1>15, <1>16, <1>17, <1>18, <1>19, <1>20, <1>21, <1>22, <1>23,
     <1>24, <1>25
  DEF Next, Step

(* Nobody else has the files open that an instance opens to save.          *)
LEMMA OpenStep ==
  ASSUME TypeOK, PointInv, LockInv, WritersInv, DirInv, FilesInv, OpenInv, Next
  PROVE  OpenInv'
<1> DEFINE Goal == \A q \in Procs : OpenOf(q)'
<1> SUFFICES ASSUME ~ Shared'
             PROVE  Goal
  BY DEF OpenInv
<1>a. ~ Shared /\ \A q \in Procs : FilesOf(q) /\ OpenOf(q)
  BY PastGrows DEF FilesInv, OpenInv
<1>b. /\ \A q \in Procs : PointOf(q)
      /\ dir["DATA"] # 0 => dir["DATA"] \notin {dir["TEMP"], dir["COPY"]}
      /\ dir["TEMP"] # 0 => dir["TEMP"] # dir["COPY"]
  BY DEF PointInv, DirInv, Names
<1> USE DEF TypeOK, Instance, FilesOf, OpenOf, Files, PointOf, Names, Held, Written,
            Writer, WritersInv, Saving, Off, None, Gone, Goto, At, Leaving
<1>1. ASSUME NEW p \in Procs, Start(p)
      PROVE  Goal
  <2>1. /\ \A q \in Procs \ {p} : proc'[q] = proc[q]
        /\ Bare(p)' /\ proc'[p].pc \in {"off", "look", "creat"}
    BY <1>1, Started
  <2>2. UNCHANGED <<disk, mixed, dir, saved, past>>
    BY <1>1 DEF Start
  <2> HIDE DEF TypeOK, Instance, PointOf
  <2> QED
    BY <1>a, <1>b, <2>1, <2>2 DEF Bare
<1>2. ASSUME NEW p \in Procs, Creat(p)
      PROVE  Goal
  <2>1. PICK n \in Inodes : OpenedAs(p, "DATA", n) /\ dir'["DATA"] = n
    BY <1>2, Opened DEF Creat, Names
  <2> QED
    BY <1>2, <2>1, <1>a, <1>b, OneWriter DEF Creat, OpenedAs
<1>3. ASSUME NEW p \in Procs, Look(p)
      PROVE  Goal
  BY <1>3, <1>a, <1>b, OneWriter DEF Look
<1>4. ASSUME NEW p \in Procs, Lock(p)
      PROVE  Goal
  <2>1. LockAs(p)
    BY <1>4, Effects
  <2> QED
    BY <2>1, <1>a, <1>b, OneWriter DEF LockAs, Lands, Bare
<1>5. ASSUME NEW p \in Procs, TryTemp(p)
      PROVE  Goal
  <2>1. PICK n \in Inodes : OpenedAs(p, "TEMP", n) /\ dir'["TEMP"] = n
    BY <1>5, Opened DEF TryTemp, Names
  <2>2. proc[p].locked /\ ~ Leaving(p)
    <3>1. proc[p].pc = "try" /\ (proc[p].opt = "l" => Shared')
      BY <1>5 DEF TryTemp, Shared
    <3> QED
      BY <1>b, <3>1
  <2> QED
    BY <1>5, <2>1, <2>2, <1>a, <1>b, OneWriter DEF TryTemp, OpenedAs
<1>6. ASSUME NEW p \in Procs, Open(p)
      PROVE  Goal
  <2>1. OpenAs(p)
    BY <1>6, Effects
  <2>2. CASE dir["DATA"] = 0
    BY <2>1, <2>2, <1>a, <1>b DEF OpenAs, Lands
  <2>3. CASE dir["DATA"] # 0
    <3>1. /\ \A q \in Procs \ {p} : proc'[q] = proc[q]
          /\ proc'[p].temp = 0 /\ proc'[p].copy = 0
          /\ proc'[p].pc = "read" /\ UNCHANGED mixed
      BY <2>1, <2>3, <1>b DEF OpenAs, Lands
    <3> HIDE DEF TypeOK, Instance, PointOf, FilesOf
    <3> QED
      BY <3>1, <1>a
  <2> QED
    BY <2>2, <2>3
<1>7. ASSUME NEW p \in Procs, Read(p)
      PROVE  Goal
  <2>1. /\ UNCHANGED <<disk, mixed, dir, saved>>
        /\ proc[p].pc = "read"
    BY <1>7 DEF Read
  <2>2. HasReadAs(p)
    BY <1>7, HasRead
  <2> HIDE DEF TypeOK, Instance
  <2> QED
    BY <1>a, <1>b, <2>1, <2>2 DEF HasReadAs, Bare
<1>8. ASSUME NEW p \in Procs, PrintEntries(p)
      PROVE  Goal
  BY <1>8, <1>a, <1>b, OneWriter DEF PrintEntries
<1>9. ASSUME NEW p \in Procs, Edit(p)
      PROVE  Goal
  <2>1. EditAs(p)
    BY <1>9, Effects
  <2> QED
    BY <2>1, <1>a, <1>b, OneWriter DEF EditAs, Lands
<1>10. ASSUME NEW p \in Procs, Save(p)
      PROVE  Goal
  BY <1>10, <1>a, <1>b, OneWriter DEF Save
<1>11. ASSUME NEW p \in Procs, Quit(p)
      PROVE  Goal
  <2>1. LeaveAs(p)
    BY <1>11, Effects
  <2> QED
    BY <2>1, <1>a, <1>b, OneWriter DEF LeaveAs, Lands
<1>12. ASSUME NEW p \in Procs, user_eof(p)
      PROVE  Goal
  <2>1. LeaveAs(p)
    BY <1>12, Effects
  <2> QED
    BY <2>1, <1>a, <1>b, OneWriter DEF LeaveAs, Lands
<1>13. ASSUME NEW p \in Procs, SaveTemp(p)
      PROVE  Goal
  <2>1. PICK i \in Inodes : SaveTempAs(p, i)
    BY <1>13, Effects
  <2>2. i # 0
    BY DEF Inodes
  <2>3. proc[p].pc = "saveTemp" /\ proc[p].locked
    BY <1>a, <2>1 DEF SaveTempAs
  <2>4. \A q \in Procs \ {p} : proc[q].temp = 0
    <3> SUFFICES ASSUME NEW q \in Procs \ {p}, proc[q].temp # 0
                 PROVE  FALSE
      OBVIOUS
    <3>1. proc[q].temp = dir["TEMP"]
      BY <1>a
    <3>2. Leaving(q)
      BY <1>a, <1>b, <2>3, OneWriter
    <3>3. Overtakes(p, "TEMP")
      BY <3>1, <3>2 DEF Overtakes
    <3> QED
      BY <2>1, <3>3 DEF SaveTempAs
  <2>5. \A q \in Procs \ {p} : i \notin Written(q)
    <3> SUFFICES ASSUME NEW q \in Procs \ {p}, i = proc[q].copy
                 PROVE  FALSE
      BY <2>2, <2>4
    <3>1. i = dir["COPY"]
      BY <1>a, <2>2
    <3> QED
      BY <1>b, <2>1, <2>2, <3>1 DEF SaveTempAs, OpenedAs
  <2>6. mixed' = mixed \ {i}
    BY <2>1, <2>5 DEF SaveTempAs, OpenedAs
  <2> QED
    BY <2>1, <2>2, <2>3, <2>4, <2>6, <1>a, <1>b, OneWriter DEF SaveTempAs, Lands
<1>14. ASSUME NEW p \in Procs, SaveCopy(p)
      PROVE  Goal
  <2>1. PICK i \in Inodes : SaveCopyAs(p, i)
    BY <1>14, Effects
  <2>2. i # 0
    BY DEF Inodes
  <2>3. proc[p].pc = "saveCopy" /\ proc[p].locked
    BY <1>a, <2>1 DEF SaveCopyAs
  <2>4. \A q \in Procs \ {p} : proc[q].copy = 0
    <3> SUFFICES ASSUME NEW q \in Procs \ {p}, proc[q].copy # 0
                 PROVE  FALSE
      OBVIOUS
    <3>1. proc[q].copy = dir["COPY"]
      BY <1>a
    <3>2. Leaving(q)
      BY <1>a, <1>b, <2>3, OneWriter
    <3>3. Overtakes(p, "COPY")
      BY <3>1, <3>2 DEF Overtakes
    <3> QED
      BY <2>1, <3>3 DEF SaveCopyAs
  <2>5. \A q \in Procs \ {p} : i \notin Written(q)
    <3> SUFFICES ASSUME NEW q \in Procs \ {p}, i = proc[q].temp
                 PROVE  FALSE
      BY <2>2, <2>4
    <3>1. i = dir["TEMP"]
      BY <1>a, <2>2
    <3> QED
      BY <1>b, <2>1, <2>2, <3>1 DEF SaveCopyAs, OpenedAs
  <2>6. mixed' = mixed \ {i}
    BY <2>1, <2>5 DEF SaveCopyAs, OpenedAs
  <2> QED
    BY <2>1, <2>2, <2>3, <2>4, <2>6, <1>a, <1>b, OneWriter DEF SaveCopyAs, Lands
<1>15. ASSUME NEW p \in Procs, WriteRolo(p)
      PROVE  Goal
  BY <1>15, <1>a, <1>b, OneWriter DEF WriteRolo
<1>16. ASSUME NEW p \in Procs, CloseTemp(p)
      PROVE  Goal
  <2>1. CloseTempAs(p)
    BY <1>16, Effects
  <2> QED
    BY <2>1, <1>a, <1>b, OneWriter DEF CloseTempAs, Lands, Flushed
<1>17. ASSUME NEW p \in Procs, CloseCopy(p)
      PROVE  Goal
  <2>1. CloseCopyAs(p)
    BY <1>17, Effects
  <2> QED
    BY <2>1, <1>a, <1>b, OneWriter DEF CloseCopyAs, Lands, Flushed
<1>18. ASSUME NEW p \in Procs, Backup(p)
      PROVE  Goal
  BY <1>18, <1>a, <1>b, OneWriter DEF Backup
<1>19. ASSUME NEW p \in Procs, Install(p)
      PROVE  Goal
  <2>1. InstallAs(p)
    BY <1>19, Effects
  <2> QED
    BY <2>1, <1>a, <1>b, OneWriter DEF InstallAs, Lands
<1>20. ASSUME NEW p \in Procs, Unlock(p)
      PROVE  Goal
  BY <1>20, <1>a, <1>b, OneWriter DEF Unlock
<1>21. ASSUME NEW p \in Procs, Exit(p)
      PROVE  Goal
  BY <1>21, <1>a, <1>b, OneWriter DEF Exit
<1>22. ASSUME NEW p \in Procs, user_interrupt(p)
      PROVE  Goal
  <2>1. InterruptAs(p)
    BY <1>22, Effects
  <2> QED
    BY <2>1, <1>a, <1>b, OneWriter DEF InterruptAs, Bare, Lands
<1>23. ASSUME NEW p \in Procs, Crash(p)
      PROVE  Goal
  BY <1>23, <1>a, <1>b, OneWriter DEF Crash
<1>24. CASE RemoveLock
  BY <1>24, <1>a, <1>b DEF RemoveLock
<1>25. ASSUME NEW p \in Procs, FlushTemp(p) \/ FlushCopy(p)
      PROVE  Goal
  <2>1. FlushAs(p)
    BY <1>25, Effects
  <2> QED
    BY <2>1, <1>a, <1>b, OneWriter DEF FlushAs, Lands
<1> QED
  BY <1>1, <1>2, <1>3, <1>4, <1>5, <1>6, <1>7, <1>8, <1>9, <1>10, <1>11, <1>12,
     <1>13, <1>14, <1>15, <1>16, <1>17, <1>18, <1>19, <1>20, <1>21, <1>22, <1>23,
     <1>24, <1>25
  DEF Next, Step

(* What is written is what is in core, and it is whole. *)
LEMMA WholeStep ==
  ASSUME TypeOK, PointInv, LockInv, WritersInv, DirInv, FilesInv, OpenInv, WholeInv, Next
  PROVE  WholeInv'
<1> DEFINE Goal == /\ \A q \in Procs : WholeOf(q)'
                   /\ dir'["DATA"] # 0 => 0 \notin Content("DATA")'
<1> SUFFICES ASSUME ~ Shared'
             PROVE  Goal
  BY DEF WholeInv
<1>a. /\ ~ Shared /\ \A q \in Procs : FilesOf(q) /\ OpenOf(q) /\ WholeOf(q)
      /\ dir["DATA"] # 0 => 0 \notin Content("DATA")
  BY PastGrows DEF FilesInv, OpenInv, WholeInv
<1>b. /\ \A q \in Procs : PointOf(q)
      /\ dir["DATA"] # 0 => dir["DATA"] \notin {dir["BAK"], dir["TEMP"], dir["COPY"]}
      /\ dir["BAK"] # 0 => dir["BAK"] \notin {dir["TEMP"], dir["COPY"]}
      /\ dir["TEMP"] # 0 => dir["TEMP"] # dir["COPY"]
  BY DEF PointInv, DirInv, Names
<1> USE DEF TypeOK, Instance, FilesOf, Files, PointOf, Names, Content, Held,
            Written, Writer, WritersInv, Saving, Off, None, Gone, Goto, At, Leaving,
            WholeOf
<1>1. ASSUME NEW p \in Procs, Start(p)
      PROVE  Goal
  <2>1. /\ \A q \in Procs \ {p} : proc'[q] = proc[q]
        /\ Bare(p)' /\ proc'[p].pc \in {"off", "look", "creat"}
    BY <1>1, Started
  <2>2. UNCHANGED <<disk, mixed, dir, saved, past>>
    BY <1>1 DEF Start
  <2> HIDE DEF TypeOK, Instance, PointOf
  <2> QED
    BY <1>a, <1>b, <2>1, <2>2 DEF Bare
<1>2. ASSUME NEW p \in Procs, Creat(p)
      PROVE  Goal
  <2>1. PICK n \in Inodes : OpenedAs(p, "DATA", n) /\ dir'["DATA"] = n
    BY <1>2, Opened DEF Creat, Names
  <2> QED
    BY <1>2, <2>1, <1>a, <1>b, OneWriter DEF Creat, OpenedAs
<1>3. ASSUME NEW p \in Procs, Look(p)
      PROVE  Goal
  BY <1>3, <1>a, <1>b, OneWriter DEF Look
<1>4. ASSUME NEW p \in Procs, Lock(p)
      PROVE  Goal
  <2>1. LockAs(p)
    BY <1>4, Effects
  <2> QED
    BY <2>1, <1>a, <1>b, OneWriter DEF LockAs, Lands, Bare
<1>5. ASSUME NEW p \in Procs, TryTemp(p)
      PROVE  Goal
  <2>1. PICK n \in Inodes : OpenedAs(p, "TEMP", n) /\ dir'["TEMP"] = n
    BY <1>5, Opened DEF TryTemp, Names
  <2>2. proc[p].locked /\ ~ Leaving(p)
    <3>1. proc[p].pc = "try" /\ (proc[p].opt = "l" => Shared')
      BY <1>5 DEF TryTemp, Shared
    <3> QED
      BY <1>b, <3>1
  <2> QED
    BY <1>5, <2>1, <2>2, <1>a, <1>b, OneWriter DEF TryTemp, OpenedAs
<1>6. ASSUME NEW p \in Procs, Open(p)
      PROVE  Goal
  <2>1. OpenAs(p)
    BY <1>6, Effects
  <2> QED
    BY <2>1, <1>a, <1>b, OneWriter DEF OpenAs, Lands
<1>7. ASSUME NEW p \in Procs, Read(p)
      PROVE  Goal
  <2>1. /\ UNCHANGED <<disk, mixed, dir, saved>>
        /\ proc[p].pc = "read"
    BY <1>7 DEF Read
  <2>2. HasReadAs(p)
    BY <1>7, HasRead
  <2> HIDE DEF TypeOK, Instance
  <2> QED
    BY SMTT(30), <1>a, <1>b, <2>1, <2>2 DEF HasReadAs, Bare
<1>8. ASSUME NEW p \in Procs, PrintEntries(p)
      PROVE  Goal
  BY <1>8, <1>a, <1>b, OneWriter DEF PrintEntries
<1>9. ASSUME NEW p \in Procs, Edit(p)
      PROVE  Goal
  <2>1. EditAs(p)
    BY <1>9, Effects
  <2> QED
    BY <2>1, <1>a, <1>b, OneWriter DEF EditAs, Lands
<1>10. ASSUME NEW p \in Procs, Save(p)
      PROVE  Goal
  BY <1>10, <1>a, <1>b, OneWriter DEF Save
<1>11. ASSUME NEW p \in Procs, Quit(p)
      PROVE  Goal
  <2>1. LeaveAs(p)
    BY <1>11, Effects
  <2> QED
    BY <2>1, <1>a, <1>b, OneWriter DEF LeaveAs, Lands
<1>12. ASSUME NEW p \in Procs, user_eof(p)
      PROVE  Goal
  <2>1. LeaveAs(p)
    BY <1>12, Effects
  <2> QED
    BY <2>1, <1>a, <1>b, OneWriter DEF LeaveAs, Lands
<1>13. ASSUME NEW p \in Procs, SaveTemp(p)
      PROVE  Goal
  <2>1. PICK i \in Inodes : SaveTempAs(p, i)
    BY <1>13, Effects
  <2>2. i # 0
    BY DEF Inodes
  <2> QED
    BY <2>1, <2>2, <1>a, <1>b, OneWriter DEF SaveTempAs, OpenedAs, Lands
<1>14. ASSUME NEW p \in Procs, SaveCopy(p)
      PROVE  Goal
  <2>1. PICK i \in Inodes : SaveCopyAs(p, i)
    BY <1>14, Effects
  <2>2. i # 0
    BY DEF Inodes
  <2> QED
    BY <2>1, <2>2, <1>a, <1>b, OneWriter DEF SaveCopyAs, OpenedAs, Lands
<1>15. ASSUME NEW p \in Procs, WriteRolo(p)
      PROVE  Goal
  BY <1>15, <1>a, <1>b, OneWriter DEF WriteRolo
<1>16. ASSUME NEW p \in Procs, CloseTemp(p)
      PROVE  Goal
  <2>1. CloseTempAs(p)
    BY <1>16, Effects
  <2>2. /\ dir' = dir /\ proc[p].pc = "closeTemp"
        /\ \A q \in Procs : proc'[q].core = proc[q].core
        /\ \A q \in Procs \ {p} : proc'[q] = proc[q]
    BY <2>1 DEF CloseTempAs, Lands
  <2>a. PointOf(p) /\ OpenOf(p) /\ FilesOf(p) /\ proc[p] \in Instance
    BY <1>a, <1>b
  <2>3. proc[p].temp = dir["TEMP"] /\ proc[p].temp \in Inodes /\ proc[p].temp \notin mixed
    <3>1. proc[p].temp \in Files /\ proc[p].temp # 0
      BY <2>2, <2>a
    <3> HIDE DEF TypeOK, Instance
    <3>2. proc[p].temp \notin mixed
      BY <2>2, <2>a, <3>1 DEF OpenOf
    <3> QED
      BY <2>a, <3>1, <3>2
  <2>4. /\ proc'[p].pc \in {"closeCopy", "unlock"}
        /\ proc'[p].pc = "closeCopy" => disk'[dir["TEMP"]] = proc[p].core
        /\ \A j \in Inodes : j # dir["TEMP"] => disk'[j] = disk[j]
    BY <2>1, <2>3 DEF CloseTempAs, Lands, Flushed
  <2>5. \A q \in Procs \ {p} : proc[q].pc \notin {"closeCopy", "backup", "install"}
    <3> SUFFICES ASSUME NEW q \in Procs \ {p}, proc[q].pc \in {"closeCopy", "backup", "install"}
                 PROVE  FALSE
      OBVIOUS
    <3> HIDE DEF TypeOK, Instance
    <3>1. OpenOf(q)
      BY <1>a
    <3>2. proc[p].temp = 0 /\ proc[p].copy = 0
      BY <3>1 DEF OpenOf
    <3> QED
      BY <2>2, <2>a, <3>2
  <2>6. dir["DATA"] # 0 => dir["DATA"] \in Inodes /\ dir["DATA"] # dir["TEMP"]
    BY <1>b
  <2> HIDE DEF TypeOK, Instance, PointOf, FilesOf, OpenOf
  <2>7. \A q \in Procs : 0 \notin proc[q].core
    BY <1>a DEF WholeOf
  <2>8. \A q \in Procs \ {p} : WholeOf(q)'
    BY <2>2, <2>5, <2>7
  <2>9. WholeOf(p)'
    <3>1. dir["TEMP"] # 0
      BY <2>3 DEF Inodes
    <3> QED
      BY <2>2, <2>3, <2>4, <2>7, <3>1
  <2>10. dir'["DATA"] # 0 => 0 \notin Content("DATA")'
    BY <2>2, <2>4, <2>6, <1>a
  <2> QED
    BY <2>8, <2>9, <2>10
<1>17. ASSUME NEW p \in Procs, CloseCopy(p)
      PROVE  Goal
  <2>1. CloseCopyAs(p)
    BY <1>17, Effects
  <2>2. /\ dir' = dir /\ proc[p].pc = "closeCopy"
        /\ \A q \in Procs : proc'[q].core = proc[q].core
        /\ \A q \in Procs \ {p} : proc'[q] = proc[q]
    BY <2>1 DEF CloseCopyAs, Lands
  <2>a. PointOf(p) /\ OpenOf(p) /\ FilesOf(p) /\ proc[p] \in Instance
    BY <1>a, <1>b
  <2>3. proc[p].copy = dir["COPY"] /\ proc[p].copy \in Inodes /\ proc[p].copy \notin mixed
    <3>1. proc[p].copy \in Files /\ proc[p].copy # 0
      BY <2>2, <2>a
    <3> HIDE DEF TypeOK, Instance
    <3>2. proc[p].copy \notin mixed
      BY <2>2, <2>a, <3>1 DEF OpenOf
    <3> QED
      BY <2>a, <3>1, <3>2
  <2>4. /\ proc'[p].pc \in {"backup", "unlock"}
        /\ proc'[p].pc = "backup" => disk'[dir["COPY"]] = proc[p].core
        /\ \A j \in Inodes : j # dir["COPY"] => disk'[j] = disk[j]
    BY <2>1, <2>3 DEF CloseCopyAs, Lands, Flushed
  <2>5. \A q \in Procs \ {p} : proc[q].pc \notin {"closeCopy", "backup", "install"}
    <3> SUFFICES ASSUME NEW q \in Procs \ {p}, proc[q].pc \in {"closeCopy", "backup", "install"}
                 PROVE  FALSE
      OBVIOUS
    <3> HIDE DEF TypeOK, Instance
    <3>1. OpenOf(q)
      BY <1>a
    <3>2. proc[p].temp = 0 /\ proc[p].copy = 0
      BY <3>1 DEF OpenOf
    <3> QED
      BY <2>2, <2>a, <3>2
  <2>6. /\ dir["DATA"] # 0 => dir["DATA"] \in Inodes /\ dir["DATA"] # dir["COPY"]
        /\ dir["TEMP"] # 0 => dir["TEMP"] \in Inodes /\ dir["TEMP"] # dir["COPY"]
    BY <1>b
  <2> HIDE DEF TypeOK, Instance, PointOf, FilesOf, OpenOf
  <2>7. \A q \in Procs : 0 \notin proc[q].core
    BY <1>a DEF WholeOf
  <2>11. dir["TEMP"] # 0 /\ Content("TEMP") = proc[p].core
    BY <1>a, <2>2 DEF WholeOf
  <2>8. \A q \in Procs \ {p} : WholeOf(q)'
    BY <2>2, <2>5, <2>7
  <2>9. WholeOf(p)'
    <3>1. dir["COPY"] # 0
      BY <2>3 DEF Inodes
    <3>2. proc'[p].pc = "backup" => disk'[dir["TEMP"]] = proc[p].core
      BY <2>4, <2>6, <2>11
    <3> QED
      BY <2>2, <2>3, <2>4, <2>6, <2>7, <2>11, <3>1, <3>2
  <2>10. dir'["DATA"] # 0 => 0 \notin Content("DATA")'
    BY <2>2, <2>4, <2>6, <1>a
  <2> QED
    BY <2>8, <2>9, <2>10
<1>18. ASSUME NEW p \in Procs, Backup(p)
      PROVE  Goal
  BY <1>18, <1>a, <1>b, OneWriter DEF Backup
<1>19. ASSUME NEW p \in Procs, Install(p)
      PROVE  Goal
  <2>1. InstallAs(p)
    BY <1>19, Effects
  <2> QED
    BY <2>1, <1>a, <1>b, OneWriter DEF InstallAs, Lands
<1>20. ASSUME NEW p \in Procs, Unlock(p)
      PROVE  Goal
  BY <1>20, <1>a, <1>b, OneWriter DEF Unlock
<1>21. ASSUME NEW p \in Procs, Exit(p)
      PROVE  Goal
  BY <1>21, <1>a, <1>b, OneWriter DEF Exit
<1>22. ASSUME NEW p \in Procs, user_interrupt(p)
      PROVE  Goal
  <2>1. InterruptAs(p)
    BY <1>22, Effects
  <2> QED
    BY <2>1, <1>a, <1>b, OneWriter DEF InterruptAs, Bare, Lands
<1>23. ASSUME NEW p \in Procs, Crash(p)
      PROVE  Goal
  BY <1>23, <1>a, <1>b, OneWriter DEF Crash
<1>24. CASE RemoveLock
  BY <1>24, <1>a, <1>b DEF RemoveLock
<1>25. ASSUME NEW p \in Procs, FlushTemp(p) \/ FlushCopy(p)
      PROVE  Goal
  <2>1. FlushAs(p)
    BY <1>25, Effects
  <2>2. /\ dir' = dir /\ Leaving(p)
        /\ \A q \in Procs : proc'[q].core = proc[q].core /\ proc'[q].pc = proc[q].pc
    BY <2>1 DEF FlushAs, Lands
  <2>3. /\ proc[p].temp # 0 \/ proc[p].copy # 0
        /\ \A j \in Inodes : j \notin Written(p) => disk'[j] = disk[j]
    BY <2>1 DEF FlushAs
  <2>4. Written(p) \subseteq {dir["TEMP"], dir["COPY"]} \ {0}
    BY <1>a
  <2>5. /\ dir["DATA"] # 0 => dir["DATA"] \in Inodes \ {dir["TEMP"], dir["COPY"]}
        /\ \A q \in Procs : proc[q].pc \notin {"closeCopy", "backup", "install"}
    <3>1. dir["DATA"] # 0 => dir["DATA"] \in Inodes \ {dir["TEMP"], dir["COPY"]}
      BY <1>b
    <3>2. ASSUME NEW q \in Procs, proc[q].pc \in {"closeCopy", "backup", "install"}
          PROVE  FALSE
      <4> HIDE DEF TypeOK, Instance
      <4>1. OpenOf(q) /\ q # p
        BY <1>a, <2>2, <3>2
      <4>2. proc[p].temp = 0 /\ proc[p].copy = 0
        BY <3>2, <4>1 DEF OpenOf
      <4> QED
        BY <2>3, <4>2
    <3> QED
      BY <3>1, <3>2
  <2> HIDE DEF TypeOK, Instance, PointOf, FilesOf, OpenOf, Written, Leaving
  <2> QED
    BY <2>2, <2>3, <2>4, <2>5, <1>a, <1>b
<1> QED
  BY <1>1, <1>2, <1>3, <1>4, <1>5, <1>6, <1>7, <1>8, <1>9, <1>10, <1>11, <1>12,
     <1>13, <1>14, <1>15, <1>16, <1>17, <1>18, <1>19, <1>20, <1>21, <1>22, <1>23,
     <1>24, <1>25
  DEF Next, Step

(* What has been saved is not lost. *)
LEMMA SavedStep ==
  ASSUME TypeOK, PointInv, LockInv, WritersInv, DirInv, FilesInv, OpenInv, WholeInv, SavedInv, Next
  PROVE  SavedInv'
<1> DEFINE Goal == /\ dir'["DATA"] # 0 => saved' \subseteq Content("DATA")'
                   /\ dir'["DATA"] = 0 /\ saved' # {} =>
                        dir'["BAK"] # 0 /\ saved' \subseteq Content("BAK")'
                   /\ \A q \in Procs : SavedOf(q)'
<1> SUFFICES ASSUME ~ Shared', "creat" \notin past'
             PROVE  Goal
  BY DEF SavedInv
<1>a. /\ ~ Shared /\ "creat" \notin past
      /\ \A q \in Procs : FilesOf(q) /\ OpenOf(q) /\ WholeOf(q) /\ SavedOf(q)
      /\ dir["DATA"] # 0 => saved \subseteq Content("DATA")
      /\ dir["DATA"] = 0 /\ saved # {} =>
           dir["BAK"] # 0 /\ saved \subseteq Content("BAK")
  BY PastGrows DEF FilesInv, OpenInv, WholeInv, SavedInv
<1>b. /\ \A q \in Procs : PointOf(q)
      /\ dir["DATA"] # 0 => dir["DATA"] \notin {dir["BAK"], dir["TEMP"], dir["COPY"]}
      /\ dir["BAK"] # 0 => dir["BAK"] \notin {dir["TEMP"], dir["COPY"]}
      /\ dir["TEMP"] # 0 => dir["TEMP"] # dir["COPY"]
  BY DEF PointInv, DirInv, Names
<1> USE DEF TypeOK, Instance, FilesOf, Files, PointOf, Names, Content, Held,
            Written, Writer, WritersInv, Saving, Off, None, Gone, Goto, At, Leaving,
            WholeOf, SavedOf
<1>1. ASSUME NEW p \in Procs, Start(p)
      PROVE  Goal
  <2>1. /\ \A q \in Procs \ {p} : proc'[q] = proc[q]
        /\ Bare(p)' /\ proc'[p].pc \in {"off", "look", "creat"}
    BY <1>1, Started
  <2>2. UNCHANGED <<disk, mixed, dir, saved, past>>
    BY <1>1 DEF Start
  <2> HIDE DEF TypeOK, Instance, PointOf
  <2> QED
    BY <1>a, <1>b, <2>1, <2>2 DEF Bare
<1>2. ASSUME NEW p \in Procs, Creat(p)
      PROVE  Goal
  <2>1. PICK n \in Inodes : OpenedAs(p, "DATA", n) /\ dir'["DATA"] = n
    BY <1>2, Opened DEF Creat, Names
  <2> QED
    BY <1>2, <2>1, <1>a, <1>b, OneWriter DEF Creat, OpenedAs
<1>3. ASSUME NEW p \in Procs, Look(p)
      PROVE  Goal
  BY <1>3, <1>a, <1>b, OneWriter DEF Look
<1>4. ASSUME NEW p \in Procs, Lock(p)
      PROVE  Goal
  <2>1. LockAs(p)
    BY <1>4, Effects
  <2> QED
    BY <2>1, <1>a, <1>b, OneWriter DEF LockAs, Lands, Bare
<1>5. ASSUME NEW p \in Procs, TryTemp(p)
      PROVE  Goal
  <2>1. PICK n \in Inodes : OpenedAs(p, "TEMP", n) /\ dir'["TEMP"] = n
    BY <1>5, Opened DEF TryTemp, Names
  <2>2. proc[p].locked /\ ~ Leaving(p)
    <3>1. proc[p].pc = "try" /\ (proc[p].opt = "l" => Shared')
      BY <1>5 DEF TryTemp, Shared
    <3> QED
      BY <1>b, <3>1
  <2> QED
    BY <1>5, <2>1, <2>2, <1>a, <1>b, OneWriter DEF TryTemp, OpenedAs
<1>6. ASSUME NEW p \in Procs, Open(p)
      PROVE  Goal
  <2>1. OpenAs(p)
    BY <1>6, Effects
  <2> QED
    BY <2>1, <1>a, <1>b, OneWriter DEF OpenAs, Lands
<1>7. ASSUME NEW p \in Procs, Read(p)
      PROVE  Goal
  <2>1. /\ UNCHANGED <<disk, mixed, dir, saved>>
        /\ proc[p].pc = "read"
    BY <1>7 DEF Read
  <2>2. HasReadAs(p)
    BY <1>7, HasRead
  <2> HIDE DEF TypeOK, Instance
  <2> QED
    BY SMTT(30), <1>a, <1>b, <2>1, <2>2 DEF HasReadAs, Bare
<1>8. ASSUME NEW p \in Procs, PrintEntries(p)
      PROVE  Goal
  BY <1>8, <1>a, <1>b, OneWriter DEF PrintEntries
<1>9. ASSUME NEW p \in Procs, Edit(p)
      PROVE  Goal
  <2>1. EditAs(p)
    BY <1>9, Effects
  <2> QED
    BY <2>1, <1>a, <1>b, OneWriter DEF EditAs, Lands
<1>10. ASSUME NEW p \in Procs, Save(p)
      PROVE  Goal
  BY <1>10, <1>a, <1>b, OneWriter DEF Save
<1>11. ASSUME NEW p \in Procs, Quit(p)
      PROVE  Goal
  <2>1. LeaveAs(p)
    BY <1>11, Effects
  <2> QED
    BY <2>1, <1>a, <1>b, OneWriter DEF LeaveAs, Lands
<1>12. ASSUME NEW p \in Procs, user_eof(p)
      PROVE  Goal
  <2>1. LeaveAs(p)
    BY <1>12, Effects
  <2> QED
    BY <2>1, <1>a, <1>b, OneWriter DEF LeaveAs, Lands
<1>13. ASSUME NEW p \in Procs, SaveTemp(p)
      PROVE  Goal
  <2>1. PICK i \in Inodes : SaveTempAs(p, i)
    BY <1>13, Effects
  <2>2. i # 0
    BY DEF Inodes
  <2> QED
    BY <2>1, <2>2, <1>a, <1>b, OneWriter DEF SaveTempAs, OpenedAs, Lands
<1>14. ASSUME NEW p \in Procs, SaveCopy(p)
      PROVE  Goal
  <2>1. PICK i \in Inodes : SaveCopyAs(p, i)
    BY <1>14, Effects
  <2>2. i # 0
    BY DEF Inodes
  <2> QED
    BY <2>1, <2>2, <1>a, <1>b, OneWriter DEF SaveCopyAs, OpenedAs, Lands
<1>15. ASSUME NEW p \in Procs, WriteRolo(p)
      PROVE  Goal
  BY <1>15, <1>a, <1>b, OneWriter DEF WriteRolo
<1>16. ASSUME NEW p \in Procs, CloseTemp(p)
      PROVE  Goal
  <2>1. CloseTempAs(p)
    BY <1>16, Effects
  <2> QED
    BY <2>1, <1>a, <1>b, OneWriter DEF CloseTempAs, Lands, Flushed
<1>17. ASSUME NEW p \in Procs, CloseCopy(p)
      PROVE  Goal
  <2>1. CloseCopyAs(p)
    BY <1>17, Effects
  <2> QED
    BY <2>1, <1>a, <1>b, OneWriter DEF CloseCopyAs, Lands, Flushed
<1>18. ASSUME NEW p \in Procs, Backup(p)
      PROVE  Goal
  BY <1>18, <1>a, <1>b, OneWriter DEF Backup
<1>19. ASSUME NEW p \in Procs, Install(p)
      PROVE  Goal
  <2>1. InstallAs(p)
    BY <1>19, Effects
  <2> QED
    BY <2>1, <1>a, <1>b, OneWriter DEF InstallAs, Lands
<1>20. ASSUME NEW p \in Procs, Unlock(p)
      PROVE  Goal
  BY <1>20, <1>a, <1>b, OneWriter DEF Unlock
<1>21. ASSUME NEW p \in Procs, Exit(p)
      PROVE  Goal
  BY <1>21, <1>a, <1>b, OneWriter DEF Exit
<1>22. ASSUME NEW p \in Procs, user_interrupt(p)
      PROVE  Goal
  <2>1. InterruptAs(p)
    BY <1>22, Effects
  <2> QED
    BY <2>1, <1>a, <1>b, OneWriter DEF InterruptAs, Bare, Lands
<1>23. ASSUME NEW p \in Procs, Crash(p)
      PROVE  Goal
  BY <1>23, <1>a, <1>b, OneWriter DEF Crash
<1>24. CASE RemoveLock
  BY <1>24, <1>a, <1>b DEF RemoveLock
<1>25. ASSUME NEW p \in Procs, FlushTemp(p) \/ FlushCopy(p)
      PROVE  Goal
  <2>1. FlushAs(p)
    BY <1>25, Effects
  <2> QED
    BY <2>1, <1>a, <1>b, OneWriter DEF FlushAs, Lands
<1> QED
  BY <1>1, <1>2, <1>3, <1>4, <1>5, <1>6, <1>7, <1>8, <1>9, <1>10, <1>11, <1>12,
     <1>13, <1>14, <1>15, <1>16, <1>17, <1>18, <1>19, <1>20, <1>21, <1>22, <1>23,
     <1>24, <1>25
  DEF Next, Step

(* A rolodex that starts: the lock file is not there and nothing is open.  *)
LEMMA Initially == Init => Inv
<1> SUFFICES ASSUME Init
             PROVE  Inv
  OBVIOUS
<1>1. 1 \in Inodes
  <2>1. Cardinality(Procs) \in Nat
    BY ProcsAssumption, FS_CardinalityType
  <2> QED
    BY <2>1 DEF Inodes
<1>2. Off \in Instance
  BY DEF Instance, Points, Files, Off
<1>3. dir \in [Names -> {0, 1}] /\ \A n \in Names : dir[n] = 1 => n = "DATA"
  BY DEF Init, Names
<1>4. TypeOK
  BY <1>1, <1>2, <1>3 DEF Init, TypeOK, Files
<1>5. PointInv /\ LockInv /\ WritersInv
  BY ProcsAssumption
  DEF Init, PointInv, PointOf, LockInv, WritersInv, Writer, Saving, Off, None
<1>6. DirInv
  BY <1>3 DEF DirInv
<1>7. FilesInv
  BY DEF Init, FilesInv, FilesOf, Off
<1>10. OpenInv
  BY DEF Init, OpenInv, OpenOf, Written, Saving, Off
<1>8. WholeInv
  BY <1>1, <1>3 DEF Init, WholeInv, WholeOf, Content, Off, Names
<1>9. SavedInv
  BY DEF Init, SavedInv, SavedOf, Off
<1> QED
  BY <1>4, <1>5, <1>6, <1>7, <1>8, <1>9, <1>10 DEF Inv

LEMMA Unchanged ==
  ASSUME Inv, UNCHANGED vars
  PROVE  Inv'
BY DEF vars, Inv, TypeOK, PointInv, PointOf, LockInv, WritersInv, Writer, Shared,
       DirInv, FilesInv, FilesOf, OpenInv, OpenOf, Leaving, Written, WholeInv, WholeOf, SavedInv, SavedOf, Content

(* Inv holds in every reachable state, for any instances of the program,   *)
(* any options they are started with, any number of starts and changes.    *)
THEOREM Invariance == Spec => []Inv
<1>1. ASSUME Inv, Next
      PROVE  Inv'
  BY <1>1, TypeStep, PointStep, LockStep, WritersStep, DirStep, FilesStep, OpenStep,
     WholeStep,
     SavedStep DEF Inv
<1>2. Inv /\ [Next]_vars => Inv'
  BY <1>1, Unchanged
<1> QED
  BY <1>2, Initially, PTL DEF Spec

(* The lock file is there exactly as long as the instance that made it,    *)
(* until the input of one ends, an interrupt hits one that is in exit       *)
(* already, or a file is truncated under its reader.                       *)
THEOREM LockIsWriters == Spec => []LockTellsWriter
<1>1. Inv => LockTellsWriter
  BY DEF Inv, TypeOK, LockInv, LockTellsWriter, At
<1> QED
  BY <1>1, Invariance, PTL

(* Crashes, interrupts and restarts anywhere lose no change a user was     *)
(* told is saved: it is in the data file, or in the backup when that is    *)
(* missing, and an instance that will write has it in core.  Excepted are  *)
(* a start that makes an empty data file between the two renames, and two  *)
(* instances that write at once: one has been called with -l, its input    *)
(* has ended, its interrupt came when it was in exit already, or it saved  *)
(* while another was still to write its buffers from exit.                 *)
THEOREM NothingLost == Spec => []SavedIsKept
<1>1. Inv => SavedIsKept
  BY DEF Inv, SavedInv, SavedOf, SavedIsKept, Saving
<1> QED
  BY <1>1, Invariance, PTL

(* Nobody reads a rolodex that was written in part, and the copy is whole  *)
(* when the renames begin, but for two instances that write at once in one *)
(* of the four ways named above.                                           *)
THEOREM WholeFiles == Spec => []NothingTorn
<1>1. Inv => NothingTorn
  BY DEF Inv, WholeInv, WholeOf, NothingTorn
<1> QED
  BY <1>1, Invariance, PTL
==============================================================================

------------------------------ MODULE RoloFiles ------------------------------
(***************************************************************************)
(* The rolodex program's files (lab2: rolo.c, io.c): several instances of   *)
(* the program in the same home directory, each reading .rolodex.dat,       *)
(* keeping the whole of it in core and writing it back through .rolotemp    *)
(* and two renames.  A lock file is to keep interactive instances apart;    *)
(* readers (-s, or names on the command line) take no notice of it and -l   *)
(* instances respect it but never make one.  Any instance may be            *)
(* interrupted or killed between two system calls; the buffers of the files *)
(* it has open are written by exit, one after the other, when its lock is   *)
(* gone already.                                                            *)
(*                                                                         *)
(* A file is an inode with a content, so that a file that is renamed while  *)
(* somebody else writes to it is that same file under another name.  A      *)
(* content is the set of the changes it carries; Torn is one that no        *)
(* instance wrote in full.                                                  *)
(***************************************************************************)
EXTENDS Naturals, FiniteSets, TLC

CONSTANTS Procs,      \* the instances of rolo that run at the same time
          Options,    \* how they may be called, out of "own", "l" and "read"
          MaxStarts,  \* how many times the program is started in all
          MaxEdits    \* how many changes the users make in all

VARIABLES disk,    \* the content of each inode
          mixed,   \* the inodes that two instances have written to at once
          dir,     \* the inode of DATA, BAK, TEMP and COPY, 0 if there is none
          lock,    \* the instance that made the lock file, None without one
          proc,    \* the instances: where they are and what they hold
          starts, edits,
          saved,   \* the changes users were told are saved
          past     \* what happened that the files are not protected from

vars == <<disk, mixed, dir, lock, proc, starts, edits, saved, past>>

None == "none"
ASSUME ProcsAssumption == IsFiniteSet(Procs) /\ None \notin Procs

Torn == {0}
Names == {"DATA", "BAK", "TEMP", "COPY"}
Inodes == 1 .. 4 + 3 * Cardinality(Procs)

(* An instance: the place in rolo_main or save_to_disk, the option, then    *)
(* rololocked, the files open for writing (0: not open) and for reading,    *)
(* the rolodex in core, changed, and where save_to_disk returns to.         *)
Off == [pc |-> "off", opt |-> None, locked |-> FALSE,
        temp |-> 0, copy |-> 0, fd |-> 0, core |-> {}, changed |-> FALSE,
        after |-> None]

At(p, where) == proc[p].pc = where
Goto(p, where) == proc' = [proc EXCEPT ![p].pc = where]
Content(n) == disk[dir[n]]
Held(p) == {proc[p].temp, proc[p].copy, proc[p].fd} \ {0}
Written(p) == {proc[p].temp, proc[p].copy} \ {0}

(* In exit, called by roloexit or, with the interrupt blocked, by its       *)
(* handler; and the files with something in their buffers.                  *)
Leaving(p) == proc[p].pc \in {"exit", "handler"}
Buffered(p) ==
  IF Leaving(p) \/ proc[p].pc \in {"closeTemp", "closeCopy", "unlock"}
    THEN Written(p) ELSE {}
Fresh == CHOOSE i \in Inodes : i \notin {dir[n] : n \in Names}
                                 /\ \A p \in Procs : i \notin Held(p)

(* The death of a process: its files are closed.                            *)
Gone(p) == proc' = [proc EXCEPT ![p] = Off]

Init ==
  /\ disk = [i \in Inodes |-> {}]
  /\ mixed = {}
  /\ dir \in {[n \in Names |-> 0], [[n \in Names |-> 0] EXCEPT !["DATA"] = 1]}
  /\ lock = None
  /\ proc = [p \in Procs |-> Off]
  /\ starts = 0 /\ edits = 0
  /\ saved = {} /\ past = {}

(* fopen(.., "w") and creat: the file is made, or the one there truncated.  *)
OpenEmpty(p, n) ==
  LET i == IF dir[n] = 0 THEN Fresh ELSE dir[n] IN
  /\ dir' = [dir EXCEPT ![n] = i]
  /\ disk' = [disk EXCEPT ![i] = {}]
  /\ mixed' = IF \E q \in Procs \ {p} : i \in Written(q)
                THEN mixed \cup {i} ELSE mixed \ {i}

(* What closing a file that p wrote may leave in it.                        *)
Flushed(p, i) == IF i \in mixed THEN {proc[p].core, Torn} ELSE {proc[p].core}

-----------------------------------------------------------------------------
(* rolo_main                                                                *)

(* The options, and access(DATA): without the file -u gives up and the      *)
(* owner's instance goes on to make one.                                    *)
Start(p) ==
  /\ At(p, "off") /\ starts < MaxStarts
  /\ starts' = starts + 1
  /\ \E o \in Options, u \in BOOLEAN :
       IF dir["DATA"] # 0
         THEN proc' = [proc EXCEPT ![p] = [Off EXCEPT !.pc = "look", !.opt = o]]
         ELSE IF u THEN Gone(p)
         ELSE proc' = [proc EXCEPT ![p] = [Off EXCEPT !.pc = "creat", !.opt = o]]
  /\ UNCHANGED <<disk, mixed, dir, lock, edits, saved, past>>

(* creat truncates what another instance may have renamed into place.       *)
Creat(p) ==
  /\ At(p, "creat")
  /\ OpenEmpty(p, "DATA")
  /\ Goto(p, "look")
  /\ past' = IF saved = {} THEN past ELSE past \cup {"creat"}
  /\ UNCHANGED <<lock, starts, edits, saved>>

(* in_use is read here, the lock is made in the next step; a reader passes. *)
Look(p) ==
  /\ At(p, "look")
  /\ IF proc[p].opt = "read" THEN Goto(p, "open")
     ELSE IF lock # None THEN Gone(p)
     ELSE Goto(p, IF proc[p].opt = "l" THEN "try" ELSE "lock")
  /\ UNCHANGED <<disk, mixed, dir, lock, starts, edits, saved, past>>

\* Faulty: open without O_EXCL.
LockAnyway(p) ==
  /\ At(p, "lock")
  /\ lock' = p
  /\ proc' = [proc EXCEPT ![p] = [@ EXCEPT !.pc = "try", !.locked = TRUE]]
  /\ UNCHANGED <<disk, mixed, dir, starts, edits, saved, past>>

(* open(.., O_EXCL | O_CREAT)                                               *)
Lock(p) ==
  /\ At(p, "lock")
  /\ IF lock # None
       THEN Gone(p) /\ UNCHANGED lock
       ELSE /\ lock' = p
            /\ proc' = [proc EXCEPT ![p] = [@ EXCEPT !.pc = "try", !.locked = TRUE]]
  /\ UNCHANGED <<disk, mixed, dir, starts, edits, saved, past>>

(* The file for changes is opened, which empties it, and closed again.      *)
TryTemp(p) ==
  /\ At(p, "try")
  /\ OpenEmpty(p, "TEMP")
  /\ Goto(p, "open")
  /\ past' = IF proc[p].opt = "l" THEN past \cup {"unlocked"} ELSE past
  /\ UNCHANGED <<lock, starts, edits, saved>>

(* open(DATA) and read_rolodex as far as fstat.                             *)
Open(p) ==
  /\ At(p, "open")
  /\ IF dir["DATA"] = 0
       THEN Goto(p, "unlock")
       ELSE proc' = [proc EXCEPT ![p] = [@ EXCEPT !.pc = "read", !.fd = dir["DATA"],
                                                   !.core = Content("DATA")]]
  /\ UNCHANGED <<disk, mixed, dir, lock, starts, edits, saved, past>>

(* read: a file that has become shorter since ends the program with exit,   *)
(* not roloexit; one that has grown is read in part.  An entry out of       *)
(* order makes an interactive instance save at once.                        *)
Read(p) ==
  /\ At(p, "read")
  /\ LET was == proc[p].core
         now == disk[proc[p].fd]
         reads == IF was = {} THEN {{}} ELSE IF now = was THEN {was}
                  ELSE IF now = {} THEN {} ELSE {Torn, now}
     IN \/ \E c \in reads :
             \/ proc' = [proc EXCEPT ![p] = [@ EXCEPT !.core = c, !.fd = 0,
                           !.pc = IF proc[p].opt = "read" THEN "print" ELSE "menu"]]
             \/ /\ proc[p].opt # "read" /\ Cardinality(c) > 1
                /\ proc' = [proc EXCEPT ![p] = [@ EXCEPT !.core = c, !.fd = 0,
                              !.pc = "saveTemp", !.after = "menu"]]
        \/ now # was /\ was # {} /\ Gone(p)
  /\ past' = IF disk[proc[p].fd] # proc[p].core THEN past \cup {"changed"} ELSE past
  /\ UNCHANGED <<disk, mixed, dir, lock, starts, edits, saved>>

(* print_short or print_people, and exit                                    *)
PrintEntries(p) ==
  /\ At(p, "print") /\ Gone(p)
  /\ UNCHANGED <<disk, mixed, dir, lock, starts, edits, saved, past>>

-----------------------------------------------------------------------------
(* interactive_rolo, as far as the files go                                 *)

(* Adding, updating or deleting an entry                                    *)
Edit(p) ==
  /\ At(p, "menu") /\ edits < MaxEdits
  /\ edits' = edits + 1
  /\ proc' = [proc EXCEPT ![p] = [@ EXCEPT !.core = proc[p].core \cup {edits'},
                                            !.changed = TRUE]]
  /\ UNCHANGED <<disk, mixed, dir, lock, starts, saved, past>>

Save(p) ==
  /\ At(p, "menu") /\ proc[p].changed
  /\ proc' = [proc EXCEPT ![p] = [@ EXCEPT !.pc = "saveTemp", !.after = "menu"]]
  /\ UNCHANGED <<disk, mixed, dir, lock, starts, edits, saved, past>>

(* save_and_exit                                                            *)
SaveAndExit(p) ==
  IF proc[p].changed
    THEN proc' = [proc EXCEPT ![p] = [@ EXCEPT !.pc = "saveTemp", !.after = "unlock"]]
    ELSE Goto(p, "unlock")

Quit(p) ==
  /\ At(p, "menu") /\ SaveAndExit(p)
  /\ UNCHANGED <<disk, mixed, dir, lock, starts, edits, saved, past>>

(* The lock file, whoever made it, goes first, and then the save begins.    *)
user_eof(p) ==
  /\ At(p, "menu") /\ SaveAndExit(p)
  /\ lock' = None
  /\ past' = past \cup {"eof"}
  /\ UNCHANGED <<disk, mixed, dir, starts, edits, saved>>

-----------------------------------------------------------------------------
(* save_to_disk                                                             *)

(* Whether p opens file n while an instance that has given up its lock has  *)
(* still to write to it.                                                    *)
Overtakes(p, n) == \E q \in Procs \ {p} : Leaving(q) /\ dir[n] \in Written(q)

SaveTemp(p) ==
  /\ At(p, "saveTemp")
  /\ OpenEmpty(p, "TEMP")
  /\ past' = IF Overtakes(p, "TEMP") THEN past \cup {"overtaken"} ELSE past
  /\ proc' = [proc EXCEPT ![p] = [@ EXCEPT !.pc = "saveCopy", !.temp = dir'["TEMP"]]]
  /\ UNCHANGED <<lock, starts, edits, saved>>

SaveCopy(p) ==
  /\ At(p, "saveCopy")
  /\ OpenEmpty(p, "COPY")
  /\ past' = IF Overtakes(p, "COPY") THEN past \cup {"overtaken"} ELSE past
  /\ proc' = [proc EXCEPT ![p] = [@ EXCEPT !.pc = "write", !.copy = dir'["COPY"]]]
  /\ UNCHANGED <<lock, starts, edits, saved>>

(* write_rolo: some of it reaches the files, the rest is in the buffers.    *)
WriteRolo(p) ==
  /\ At(p, "write")
  /\ disk' = [i \in Inodes |-> IF i \in Written(p) THEN Torn ELSE disk[i]]
  /\ Goto(p, "closeTemp")
  /\ UNCHANGED <<mixed, dir, lock, starts, edits, saved, past>>

(* fclose, which may find the disk full: a copy still open stays open.      *)
\* Faulty: its result is not looked at.
CloseAnyway(p, where, f, next) ==
  LET i == proc[p][f] IN
  /\ At(p, where)
  /\ \E c \in Flushed(p, i) \cup {Torn} : disk' = [disk EXCEPT ![i] = c]
  /\ proc' = [proc EXCEPT ![p] = [@ EXCEPT !.pc = next, ![f] = 0]]
  /\ UNCHANGED <<mixed, dir, lock, starts, edits, saved, past>>

Close(p, where, f, next) ==
  LET i == proc[p][f] IN
  /\ At(p, where)
  /\ \/ /\ \E c \in Flushed(p, i) : disk' = [disk EXCEPT ![i] = c]
        /\ proc' = [proc EXCEPT ![p] = [@ EXCEPT !.pc = next, ![f] = 0]]
     \/ /\ disk' = [disk EXCEPT ![i] = Torn]
        /\ proc' = [proc EXCEPT ![p] = [@ EXCEPT !.pc = "unlock", ![f] = 0]]
  /\ UNCHANGED <<mixed, dir, lock, starts, edits, saved, past>>

CloseTemp(p) == Close(p, "closeTemp", "temp", "closeCopy")
CloseCopy(p) == Close(p, "closeCopy", "copy", "backup")

(* rename(DATA, BAK); without a DATA it fails and the program ends.         *)
Backup(p) ==
  /\ At(p, "backup")
  /\ IF dir["DATA"] = 0
       THEN Goto(p, "unlock") /\ UNCHANGED dir
       ELSE /\ dir' = [dir EXCEPT !["BAK"] = dir["DATA"], !["DATA"] = 0]
            /\ Goto(p, "install")
  /\ UNCHANGED <<disk, mixed, lock, starts, edits, saved, past>>

(* rename(TEMP, DATA); "Rolodex saved"; changed = 0.                        *)
Install(p) ==
  /\ At(p, "install")
  /\ IF dir["TEMP"] = 0
       THEN Goto(p, "unlock") /\ UNCHANGED <<dir, saved>>
       ELSE /\ dir' = [dir EXCEPT !["DATA"] = dir["TEMP"], !["TEMP"] = 0]
            /\ saved' = saved \cup proc[p].core
            /\ proc' = [proc EXCEPT ![p] = [@ EXCEPT !.pc = proc[p].after, !.after = None,
                                                      !.changed = FALSE]]
  /\ UNCHANGED <<disk, mixed, lock, starts, edits, past>>

\* Faulty: the lock file is left behind.
UnlockNot(p) ==
  /\ At(p, "unlock")
  /\ Goto(p, "exit")
  /\ UNCHANGED <<disk, mixed, dir, lock, starts, edits, saved, past>>

(* roloexit: unlink if rololocked, whoever's the lock file now is.          *)
Unlock(p) ==
  /\ At(p, "unlock")
  /\ lock' = IF proc[p].locked THEN None ELSE lock
  /\ Goto(p, "exit")
  /\ UNCHANGED <<disk, mixed, dir, starts, edits, saved, past>>

(* exit writes what a buffer holds to the file, all of it or (the rolodex   *)
(* was not written to the end, or the disk is full) some or nothing.        *)
Flush(p, f) ==
  LET i == proc[p][f] IN
  /\ Leaving(p) /\ i # 0
  /\ \E c \in {disk[i], proc[p].core, Torn} : disk' = [disk EXCEPT ![i] = c]
  /\ proc' = [proc EXCEPT ![p] = [@ EXCEPT ![f] = 0]]
  /\ UNCHANGED <<mixed, dir, lock, starts, edits, saved, past>>

FlushTemp(p) == Flush(p, "temp")
FlushCopy(p) == Flush(p, "copy")

Exit(p) ==
  /\ Leaving(p) /\ Written(p) = {} /\ Gone(p)
  /\ UNCHANGED <<disk, mixed, dir, lock, starts, edits, saved, past>>

-----------------------------------------------------------------------------
(* What happens to an instance from outside                                 *)

(* user_interrupt, installed once the lock is made: unlink, and exit, with  *)
(* the buffers of a save under way still to be written.                     *)
user_interrupt(p) ==
  /\ proc[p].locked /\ ~At(p, "handler")
  /\ lock' = None
  /\ past' = IF At(p, "exit") THEN past \cup {"late"} ELSE past
  /\ IF Buffered(p) = {}
       THEN Gone(p)
       ELSE proc' = [proc EXCEPT ![p] = [@ EXCEPT !.pc = "handler"]]
  /\ UNCHANGED <<disk, mixed, dir, starts, edits, saved>>

(* A kill, a hangup, or ^C without the handler: nothing is flushed.  What   *)
(* was written stays written; nothing is said of the end of the machine, as *)
(* the program never calls fsync.                                           *)
Crash(p) ==
  /\ proc[p].pc # "off" /\ Gone(p)
  /\ past' = past \cup {"crash"}
  /\ UNCHANGED <<disk, mixed, dir, lock, starts, edits, saved>>

(* "it is probably safe to remove the lock file" (helplib/lockinfo): a user *)
(* does when the instance that made it is not there any more.               *)
RemoveLock ==
  /\ lock # None /\ ~proc[lock].locked
  /\ lock' = None
  /\ UNCHANGED <<disk, mixed, dir, proc, starts, edits, saved, past>>

Step(p) ==
  \/ Start(p) \/ Creat(p) \/ Look(p) \/ Lock(p) \/ TryTemp(p) \/ Open(p) \/ Read(p)
  \/ PrintEntries(p) \/ Edit(p) \/ Save(p) \/ Quit(p) \/ user_eof(p)
  \/ SaveTemp(p) \/ SaveCopy(p) \/ WriteRolo(p) \/ CloseTemp(p) \/ CloseCopy(p)
  \/ Backup(p) \/ Install(p) \/ Unlock(p)
  \/ FlushTemp(p) \/ FlushCopy(p) \/ Exit(p)
  \/ user_interrupt(p) \/ Crash(p)

Next == RemoveLock \/ \E p \in Procs : Step(p)

Spec == Init /\ [][Next]_vars

-----------------------------------------------------------------------------
(* Two instances may have written to the files at once: one without the     *)
(* lock (-l), after the end of its input, or when an interrupt on the way   *)
(* out took the lock of another; or an instance was interrupted in a save,  *)
(* or its disk was full, and the next one began to save before the last     *)
(* buffer was written.                                                      *)
Shared == past \cap {"unlocked", "eof", "late", "overtaken"} # {}

(* The lock file is there exactly as long as the instance that made it:     *)
(* two interactive instances without -l never run together, every way out   *)
(* of the program takes the file away, and only a crash leaves it behind.   *)
(* This holds until somebody ends the input (user_eof removes the file      *)
(* before it saves, and removes anybody's), interrupts an instance that is  *)
(* already leaving, or truncates the file an instance is about to read,     *)
(* which then ends by exit instead of roloexit.                             *)
LockTellsWriter ==
  past \cap {"eof", "late", "changed"} = {} =>
    /\ \A p \in Procs : proc[p].locked /\ ~Leaving(p) => lock = p
    /\ lock # None /\ "crash" \notin past => proc[lock].locked

(* Whatever crashes or is interrupted where, what a user was told is saved  *)
(* is in the data file or, where that is missing between the two renames,   *)
(* in the backup, and an instance that may write has it in core - unless a  *)
(* start in that gap has made an empty data file, or two instances wrote at *)
(* once in one of the four ways of Shared.  The last is no fault of the     *)
(* users: user_interrupt gives the lock away before exit has written the    *)
(* buffers, which then go into the file the next instance has renamed to    *)
(* the data file.                                                           *)
SavedIsKept ==
  ~Shared /\ "creat" \notin past =>
    /\ IF dir["DATA"] # 0
         THEN saved \subseteq Content("DATA")
         ELSE saved # {} => dir["BAK"] # 0 /\ saved \subseteq Content("BAK")
    /\ \A p \in Procs :
         proc[p].locked /\ proc[p].pc \in {"menu", "saveTemp", "install"} =>
           saved \subseteq proc[p].core

(* No file is torn where it matters, unless two instances wrote at once in  *)
(* one of the four ways of Shared: an instance that takes no lock reads a   *)
(* rolodex that is whole, whatever a writer is doing, and "Revised rolodex  *)
(* is in .rolocopy" is true, whether a rename fails or the program is       *)
(* killed between the two.                                                  *)
NothingTorn ==
  ~Shared =>
    \A p \in Procs :
      /\ proc[p].pc \in {"print", "menu"} => 0 \notin proc[p].core
      /\ proc[p].pc \in {"backup", "install"} =>
           dir["COPY"] # 0 /\ Content("COPY") = proc[p].core

=============================================================================

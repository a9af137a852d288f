------------------------------- MODULE Rolodex -------------------------------
(***************************************************************************)
(* The rolodex in core and the screens that walk it (lab2: rlist.c,         *)
(* operations.c, search.c, update.c, and the menu of options.c).  Entries   *)
(* hang on links of a doubly linked list in the order of their names; a     *)
(* link has a matched flag, set for the entries a scan or a search is to    *)
(* show.  While an entry is on the screen the user may delete it, update    *)
(* it, which moves its link when the name changes, or start another scan    *)
(* from there: the screens below it on the stack then go on from pointers   *)
(* and flags that the upper one has changed.                                *)
(*                                                                         *)
(* Of an entry the model keeps the name (its place in the order), whether   *)
(* a basic field was never set (a NULL pointer) and whether there are user  *)
(* defined fields.  Links are never freed, in the code as here.             *)
(***************************************************************************)
EXTENDS Naturals, Sequences, SequencesExt, FiniteSets

CONSTANTS MaxLinks,    \* links there can be
          MaxLoaded,   \* entries in the file at the start
          MaxName,     \* names, in their alphabetical order
          MAXMATCHES,  \* how many matches are listed for the user to pick from
          MaxDepth,    \* scans within scans
          MaxCalls     \* what the user does in all

ASSUME RolodexAssumption ==
  MaxLinks \in Nat /\ MaxLoaded \in 0 .. MaxLinks /\ MaxName \in Nat \ {0}

VARIABLES list,      \* Begin_Rlist, End_Rlist and the links' pointers
          entry,     \* each link's entry
          matched,   \* the links whose matched flag is set
          used,      \* how many links there are
          live,      \* the links whose entries are in the rolodex
          screens,   \* the scans and searches under way, the innermost last
          fault,     \* the program has followed a NULL pointer
          past,      \* what happened that the list does not survive
          calls

vars == <<list, entry, matched, used, live, screens, fault, past, calls>>

Links == 1 .. MaxLinks

(* Some field never set, some user defined field, or neither                *)
Fields == [name : 1 .. MaxName, data : {"plain", "unset", "others"}]

-----------------------------------------------------------------------------
(* rlist.c                                                                  *)

(* The link reached from l in k steps, and all that are reached             *)
Ahead(lst, l, k) ==
  LET f[i \in 0 .. k] == IF i = 0 THEN l ELSE IF f[i - 1] = 0 THEN 0 ELSE lst.next[f[i - 1]]
  IN f[k]

Chain(lst, l) == {Ahead(lst, l, k) : k \in 0 .. MaxLinks} \ {0}

Empty == [begin |-> 0, end |-> 0,
          next |-> [l \in Links |-> 0], prev |-> [l \in Links |-> 0]]

(* set_next_link, or Begin_Rlist where there is no link to set it in        *)
SetNext(lst, l, to) ==
  IF l = 0 THEN [lst EXCEPT !.begin = to] ELSE [lst EXCEPT !.next[l] = to]
SetPrev(lst, l, to) ==
  IF l = 0 THEN [lst EXCEPT !.end = to] ELSE [lst EXCEPT !.prev[l] = to]

(* link goes before the first entry that compares greater, or to the end.   *)
rolo_insert(lst, ent, link) ==
  LET Place(k) == LET r == Ahead(lst, lst.begin, k)
                  IN r = 0 \/ ent[r].name > ent[link].name
      r == Ahead(lst, lst.begin,
             CHOOSE k \in 0 .. MaxLinks : Place(k) /\ \A i \in 0 .. k - 1 : ~Place(i))
      before == IF lst.begin = 0 THEN 0 ELSE IF r = 0 THEN lst.end ELSE lst.prev[r]
  IN SetPrev(SetNext([lst EXCEPT !.next[link] = r, !.prev[link] = before],
                     before, link),
             r, link)

\* Faulty: the link after the deleted one keeps its prev.
rolo_delete_forward(lst, link) ==
  SetNext(IF lst.next[link] = 0 THEN [lst EXCEPT !.end = lst.prev[link]] ELSE lst,
          lst.prev[link], lst.next[link])

(* The neighbours are linked to each other; the link keeps its pointers.    *)
rolo_delete(lst, link) ==
  SetPrev(SetNext(lst, lst.prev[link], lst.next[link]),
          lst.next[link], lst.prev[link])

(* rolo_reorder: the links, in the order of the list, inserted anew.        *)
rolo_reorder(lst, ent) ==
  LET old == [k \in 0 .. MaxLinks |-> Ahead(lst, lst.begin, k)]
      f[k \in 0 .. MaxLinks] ==
        IF k = 0 THEN [lst EXCEPT !.begin = 0]
        ELSE IF old[k - 1] = 0 THEN f[k - 1]
        ELSE rolo_insert(f[k - 1], ent, old[k - 1])
  IN f[MaxLinks]

(* read_rolodex: the entries of the file, in its order, reordered if need be *)
Loaded(n, ent) ==
  LET file == [begin |-> IF n = 0 THEN 0 ELSE 1, end |-> n,
               next |-> [l \in Links |-> IF l < n THEN l + 1 ELSE 0],
               prev |-> [l \in Links |-> IF l <= n THEN l - 1 ELSE 0]]
  IN IF \E l \in 2 .. n : ent[l - 1].name > ent[l].name
       THEN rolo_reorder(file, ent) ELSE file

Init ==
  /\ used \in 0 .. MaxLoaded
  /\ entry \in {[l \in Links |-> [name |-> IF l <= used THEN nm[l] ELSE 1,
                                  data |-> IF l \in o THEN "others" ELSE "plain"]] :
                  nm \in [1 .. used -> 1 .. MaxName], o \in {{}, {1}}}
  /\ list = Loaded(used, entry)
  /\ live = 1 .. used
  /\ matched = {}
  /\ screens = <<>>
  /\ fault = FALSE /\ past = {} /\ calls = 0

(* What the user does, as long as there is something to be said of it.      *)
Broken == past \cap {"nested", "zero"} # {}
Call == ~fault /\ ~Broken /\ calls < MaxCalls /\ calls' = calls + 1

-----------------------------------------------------------------------------
(* Screens: the kind ("scan" is a rolo_peruse_mode, "search" the display of *)
(* all matches, "pick" the choice of one of them, "one" the only one), the  *)
(* link the scan started from, the one it is at, whether that is displayed, *)
(* and the entries the search was for.                                      *)
Screen(k, first, at, shown, hits) ==
  [kind |-> k, first |-> first, at |-> at, shown |-> shown, hits |-> hits]

Top == screens[Len(screens)]
Scanning == Top.kind \in {"scan", "search"}
Showing(kinds) == screens # <<>> /\ Top.shown /\ Top.kind \in kinds
Replace(s) == [screens EXCEPT ![Len(screens)] = s]

\* Faulty: the flags are cleared from the entry the scan ended at.
FlagsAfter_end(s, lst) ==
  IF s.kind = "scan" THEN matched \ Chain(lst, s.at) ELSE matched

(* rolo_peruse_mode clears the flags from its first link on, along the      *)
(* pointers as they are then.                                               *)
FlagsAfter(s, lst) ==
  IF s.kind = "scan" THEN matched \ Chain(lst, s.first) ELSE matched

(* Every action but continue, abort and previous ends in the next entry of  *)
(* a scan, and back in the menu from a single entry.                        *)
GoOn(stack, lst) ==
  IF stack = <<>> THEN stack
  ELSE LET s == stack[Len(stack)] IN
       IF s.kind \in {"scan", "search"}
         THEN Front(stack) \o <<[s EXCEPT !.at = lst.next[s.at], !.shown = FALSE]>>
         ELSE Front(stack)

(* The screen is left; the one below it goes on from its own entry.         *)
Leave ==
  /\ screens' = GoOn(Front(screens), list)
  /\ matched' = FlagsAfter(Top, list)

(* display_list_of_entries: on to the next link that is matched             *)
NextMatch ==
  /\ ~fault /\ screens # <<>> /\ Scanning /\ ~Top.shown
  /\ IF Top.at = 0 THEN Leave
     ELSE /\ screens' = Replace(IF Top.at \in matched
                                  THEN [Top EXCEPT !.shown = TRUE]
                                  ELSE [Top EXCEPT !.at = list.next[Top.at]])
          /\ UNCHANGED matched
  /\ UNCHANGED <<list, entry, used, live, fault, past, calls>>

-----------------------------------------------------------------------------
(* interactive_rolo                                                         *)

(* rolo_add: a field the user gave nothing for stays NULL.  The name is     *)
(* taken to be given: an entry without one is not modelled (compare_links   *)
(* ends the program at the first one that is compared, rlist.c:106).        *)
rolo_add ==
  /\ Call /\ screens = <<>> /\ used < MaxLinks
  /\ used' = used + 1
  /\ live' = live \cup {used'}
  /\ \E f \in Fields :
       /\ entry' = [entry EXCEPT ![used'] = f]
       /\ list' = rolo_insert(list, entry', used')
  /\ UNCHANGED <<matched, screens, fault, past>>

(* rolo_peruse_mode, from the menu or from an entry on the screen           *)
Peruse(first, stack) ==
  IF list.begin = 0
    THEN screens' = GoOn(stack, list) /\ UNCHANGED matched
    ELSE /\ matched' = matched \cup Chain(list, first)
         /\ screens' = Append(stack, Screen("scan", first, first, FALSE, {}))

PeruseAll ==
  /\ Call /\ screens = <<>>
  /\ Peruse(list.begin, screens)
  /\ UNCHANGED <<list, entry, used, live, fault, past>>

(* rolo_search_mode.  Any set of entries may match; a field that was never  *)
(* set ends the program when it is searched (strlen of NULL).               *)
Search ==
  /\ Call /\ screens = <<>>
  /\ \/ /\ \E hits \in SUBSET Chain(list, list.begin) :
             LET n == Cardinality(hits) IN
             /\ matched' = (matched \ Chain(list, list.begin)) \cup hits
             /\ screens' =
                  IF n = 0 THEN <<>>
                  ELSE IF n = 1
                    THEN <<Screen("one", 0, CHOOSE l \in hits : TRUE, TRUE, hits)>>
                  ELSE IF n > MAXMATCHES
                    THEN <<Screen("search", 0, list.begin, FALSE, hits)>>
                  ELSE <<Screen("pick", 0, 0, FALSE, hits)>>
        /\ UNCHANGED fault
     \/ /\ \E l \in Chain(list, list.begin) : entry[l].data = "unset"
        /\ fault' = TRUE /\ UNCHANGED <<matched, screens>>
  /\ UNCHANGED <<list, entry, used, live, past>>

Picking == screens # <<>> /\ Top.kind = "pick" /\ ~Top.shown

(* The user leaves the list of matches, or scans them one by one.           *)
PickNone ==
  /\ Call /\ Picking
  /\ \/ screens' = Front(screens)
     \/ screens' = Replace([Top EXCEPT !.kind = "search", !.at = list.begin])
  /\ UNCHANGED <<list, entry, matched, used, live, fault, past>>

(* The ival-th matched link.  0 is accepted, too: rmatch is then what the   *)
(* last pick left there, and at the first pick anything.                    *)
Pick ==
  /\ Call /\ Picking
  /\ \/ \E k \in 0 .. MaxLinks - 1 :
          LET l == Ahead(list, list.begin, k) IN
          /\ l # 0 /\ l \in matched
          /\ screens' = Replace([Top EXCEPT !.at = l, !.shown = TRUE])
          /\ UNCHANGED <<fault, past>>
     \/ /\ Top.at # 0
        /\ screens' = Replace([Top EXCEPT !.shown = TRUE])
        /\ UNCHANGED <<fault, past>>
     \/ /\ Top.at = 0
        /\ past' = past \cup {"zero"}
        /\ \/ fault' = TRUE /\ UNCHANGED screens
           \/ /\ UNCHANGED fault
              /\ \E l \in 1 .. used :
                   screens' = Replace([Top EXCEPT !.at = l, !.shown = TRUE])
  /\ UNCHANGED <<list, entry, matched, used, live>>

-----------------------------------------------------------------------------
(* entry_action, and what the screen does with it                           *)

Continue ==
  /\ Call /\ Showing({"scan", "search", "pick", "one"})
  /\ screens' = IF Top.kind = "pick" THEN Replace([Top EXCEPT !.shown = FALSE])
                ELSE GoOn(screens, list)
  /\ UNCHANGED <<list, entry, matched, used, live, fault, past>>

Abort ==
  /\ Call /\ Showing({"scan", "search", "pick", "one"})
  /\ Leave
  /\ UNCHANGED <<list, entry, used, live, fault, past>>

(* The nearest link before that is matched; if there is none, the entry     *)
(* is displayed again.  The only match is left for the menu, as by Abort.   *)
Previous ==
  /\ Call /\ Showing({"scan", "search", "pick"})
  /\ LET back == [list EXCEPT !.next = list.prev]
         found == {k \in 1 .. MaxLinks : Ahead(back, Top.at, k) \in matched}
     IN screens' =
          IF Top.kind = "pick" THEN Replace([Top EXCEPT !.shown = FALSE])
          ELSE IF found = {} THEN screens
          ELSE Replace([Top EXCEPT
                 !.at = Ahead(back, @, CHOOSE k \in found : \A i \in found : k <= i)])
  /\ UNCHANGED <<list, entry, matched, used, live, fault, past>>

Delete ==
  /\ Call /\ Showing({"scan", "search", "pick", "one"})
  /\ list' = rolo_delete(list, Top.at)
  /\ live' = live \ {Top.at}
  /\ screens' = GoOn(screens, list')
  /\ UNCHANGED <<entry, matched, used, fault, past>>

Scan ==
  /\ Call /\ Showing({"scan", "search", "pick", "one"})
  /\ Len(screens) <= MaxDepth
  /\ Peruse(list.next[Top.at], screens)
  /\ UNCHANGED <<list, entry, used, live, fault, past>>

\* Faulty: the entry keeps its place.
Refiled_not(link, ent) == list

(* A renamed entry's link is taken out and inserted again.                  *)
Refiled(link, ent) == rolo_insert(rolo_delete(list, link), ent, link)

(* Of an entry with user defined fields the copy keeps their number, but    *)
(* not the array: a pointer that is NULL.                                   *)
copy_entry(e) == IF e.data = "others" THEN [e EXCEPT !.data = "unset"] ELSE e

(* rolo_update_mode: any number of changes to a copy of the entry, which    *)
(* then takes its place.  name_changed tells only of the last basic field   *)
(* changed, so a new name may go unnoticed.  The program ends where it      *)
(* displays a NULL pointer: of the entry itself at once, of the copy once   *)
(* that has been changed.                                                   *)
Update ==
  /\ Call /\ Showing({"scan", "search", "pick", "one"})
  /\ LET l == Top.at
         e == entry[l]
     IN \/ /\ copy_entry(e).data = "unset"
           /\ fault' = TRUE
           /\ UNCHANGED <<list, entry, live, screens, past>>
        \/ /\ e.data = "others"
           /\ screens' = GoOn(screens, list)
           /\ UNCHANGED <<list, entry, live, past, fault>>
        \/ /\ copy_entry(e).data # "unset"
           /\ \E nm \in 1 .. MaxName, d \in {"plain", "others"}, name_changed \in BOOLEAN :
                /\ entry' = [entry EXCEPT ![l] = [name |-> nm, data |-> d]]
                /\ list' = IF name_changed THEN Refiled(l, entry') ELSE list
                /\ live' = IF name_changed THEN live \cup {l} ELSE live
                /\ past' = past
                     \cup (IF nm # e.name /\ ~name_changed THEN {"unnoticed"} ELSE {})
                     \cup (IF name_changed /\ Len(screens) > 1 THEN {"nested"} ELSE {})
                /\ screens' = GoOn(screens, list')
                /\ UNCHANGED fault
  /\ UNCHANGED <<matched, used>>

(* The program has crashed, or the user is done.                            *)
Ended == (fault \/ Broken \/ calls = MaxCalls) /\ UNCHANGED vars

Next ==
  \/ NextMatch \/ rolo_add \/ PeruseAll \/ Search \/ PickNone \/ Pick
  \/ Continue \/ Abort \/ Previous \/ Delete \/ Scan \/ Update \/ Ended

Spec == Init /\ [][Next]_vars

-----------------------------------------------------------------------------
(* The list's entries are the rolodex, each once, from Begin_Rlist to       *)
(* End_Rlist and back, whatever the screens on the stack still point to.    *)
(* It can break only after an entry was renamed in a scan within a scan, or *)
(* match number 0 was picked.                                               *)
ListWhole ==
  ~Broken =>
    /\ Chain(list, list.begin) = live
    /\ \A l \in live :
         /\ IF list.next[l] = 0 THEN list.end = l ELSE list.prev[list.next[l]] = l
         /\ IF list.prev[l] = 0 THEN list.begin = l ELSE list.next[list.prev[l]] = l
    /\ (list.begin = 0) = (live = {})

(* "The entries are ordered alphabetically" (helplib/escanhelp), as long as *)
(* no new name went unnoticed because another field was changed after it.   *)
InOrder ==
  past = {} =>
    \A l \in live : list.next[l] # 0 => entry[l].name <= entry[list.next[l]].name

(* The entry that a user can delete or update is in the rolodex and, in the *)
(* screens of a search, one that was found: scans further up the stack      *)
(* leave neither an entry they deleted nor a flag they set behind.          *)
ShownBelongs ==
  ~Broken =>
    \A i \in 1 .. Len(screens) :
      LET s == screens[i] IN
      s.shown /\ i = Len(screens) =>
        s.at \in live /\ (s.kind # "scan" => s.at \in s.hits)

=============================================================================

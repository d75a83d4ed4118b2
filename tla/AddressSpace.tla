---------------------------- MODULE AddressSpace ----------------------------
(***************************************************************************)
(* What paging.c promises: one translation per virtual page, replaced by   *)
(* map, changed by protect and removed by unmap.  A call that succeeds has its  *)
(* whole effect, one that fails has none, and neither disturbs another     *)
(* page.                                                                   *)
(***************************************************************************)
CONSTANTS Pages,      \* virtual pages that can be mapped
          Frames,     \* physical pages
          Rights,     \* the sets of rights callers ask for
          NoEntry,    \* the page has no translation
          Initial     \* the mapping at the start

VARIABLES mapping,    \* page -> its translation or NoEntry
          result      \* what the latest call returned

Entry(frame, rights) == [present |-> TRUE, frame |-> frame, flags |-> rights]

Init == mapping = Initial /\ result = TRUE

Map(p, frame, rights) ==
  mapping' = [mapping EXCEPT ![p] = Entry(frame, rights)] /\ result' = TRUE

Unmap(p) == mapping' = [mapping EXCEPT ![p] = NoEntry] /\ result' = TRUE

Protect(p, rights) ==
  /\ mapping[p].present
  /\ mapping' = [mapping EXCEPT ![p] = Entry(mapping[p].frame, rights)]
  /\ result' = TRUE

(* A malformed request, a page that is not mapped or has no table.         *)
Refuse == UNCHANGED mapping /\ result' = FALSE

Next == \/ \E p \in Pages, f \in Frames, r \in Rights : Map(p, f, r)
        \/ \E p \in Pages, r \in Rights : Protect(p, r)
        \/ \E p \in Pages : Unmap(p)
        \/ Refuse

Spec == Init /\ [][Next]_<<mapping, result>>
=============================================================================

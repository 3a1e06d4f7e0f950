--------------------------- MODULE DatasetColumns ---------------------------
(***************************************************************************)
(* What a dataset with one writer promises, with no files, handles or      *)
(* schema behind it: named columns, and for some of them a draft the       *)
(* writer has not published.  Every call changes the columns it names and  *)
(* no other, and a draft disappears by being published, or because a call  *)
(* that rebuilds its very column discards it, or with the writer.          *)
(***************************************************************************)
CONSTANTS
    Names,     \* the fields there can be
    Vals,      \* what a column can hold
    None,      \* no column, no draft
    Faults     \* may a call stop half way?

VARIABLES stored, draft

colsVars == <<stored, draft>>
Absent == [n \in Names |-> None]
Here == {n \in Names : stored[n] # None}

ColsInit == stored = Absent /\ draft = Absent

Found ==
    /\ stored = Absent
    /\ stored' \in [Names -> Vals \cup {None}]
    /\ draft' = Absent

(* A write of the columns S: each takes it at once or into its draft.      *)
Edit ==
    \E S \in SUBSET Here :
       /\ stored' \in [Names -> Vals \cup {None}]
       /\ draft' \in [Names -> Vals \cup {None}]
       /\ \A n \in Names \ S : stored'[n] = stored[n] /\ draft'[n] = draft[n]
       /\ \A n \in S : \/ stored'[n] # None /\ draft[n] = None /\ draft'[n] = None
                       \/ stored'[n] = stored[n] /\ draft'[n] # None

Put(n, v) == stored' = [stored EXCEPT ![n] = v] /\ draft' = [draft EXCEPT ![n] = None]

Add == \E n \in Names \ Here, v \in Vals : Put(n, v)
Remove == \E n \in Here : Put(n, None)
Move ==
    \E n \in Here, m \in Names \ Here :
       /\ stored' = [stored EXCEPT ![m] = stored[n], ![n] = None]
       /\ draft' = [draft EXCEPT ![n] = None]

(* A conversion keeps what is stored.                                      *)
Discard == \E n \in Here : Put(n, stored[n])

(* The writer closes; without a fault every draft is published.            *)
Publish ==
    /\ draft' = Absent
    /\ \E S \in SUBSET Names :
          /\ Faults \/ S = Names
          /\ stored' = [n \in Names |-> IF n \in S /\ draft[n] # None THEN draft[n]
                                        ELSE stored[n]]

(* The writer is dropped, or sets out to replace everything.               *)
Forget == draft' = Absent /\ UNCHANGED stored

(* Replacing everything: column by column, at last the columns left over.  *)
Replace == draft = Absent /\ \E n \in Names, v \in Vals : Put(n, v)
Prune ==
    /\ draft = Absent
    /\ \E S \in SUBSET Here :
          stored' = [n \in Names |-> IF n \in S THEN None ELSE stored[n]]
    /\ UNCHANGED draft

ColsNext ==
    \/ Found \/ Edit \/ Add \/ Remove \/ Move \/ Discard
    \/ Publish \/ Forget \/ Replace \/ Prune

ColsSpec == ColsInit /\ [][ColsNext]_colsVars
============================================================================

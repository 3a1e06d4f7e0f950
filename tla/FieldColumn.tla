---------------------------- MODULE FieldColumn ----------------------------
(***************************************************************************)
(* What one field of a dataset promises, with no file behind it: a column  *)
(* of cells that stays as it is until somebody edits it, and the draft a   *)
(* writer of a compressed field keeps until it closes the field.           *)
(***************************************************************************)
EXTENDS ColumnData

VARIABLES
    dtype,     \* the data type of the field, NoColumn if there is no field
    stored,    \* what a reader that opens the field now finds
    draft,     \* the writer's unpublished version, or NoColumn
    op         \* the call the client made last

colVars == <<dtype, stored, draft, op>>

ColInit ==
    dtype = NoColumn /\ stored = NoColumn /\ draft = NoColumn /\ op = "none"

(* The field is created with its cells.                                    *)
Provide ==
    /\ op' = "create"
    /\ stored = NoColumn
    /\ dtype' \in Types
    /\ stored' \in Column
    /\ UNCHANGED draft

(* An edit of an uncompressed field: readers see it at once.               *)
EditStored ==
    /\ op' = "write"
    /\ stored # NoColumn /\ draft = NoColumn
    /\ \E data \in Patches : stored' = Patched(stored, data)
    /\ UNCHANGED <<dtype, draft>>

(* An edit of a compressed field goes to the draft, which starts as a copy *)
(* of what is stored; an edit of the header alone starts a draft too.      *)
Base == IF draft = NoColumn THEN stored ELSE draft

EditDraft ==
    /\ stored # NoColumn
    /\ \/ op' = "write" /\ \E data \in Patches : draft' = Patched(Base, data)
       \/ op' = "update_header" /\ draft' = Base
    /\ UNCHANGED <<dtype, stored>>

Publish ==
    /\ op' = "close"
    /\ draft # NoColumn
    /\ stored' = draft
    /\ draft' = NoColumn
    /\ UNCHANGED dtype

(* The whole column is replaced; its type stays.                           *)
Replace ==
    /\ op' = "update"
    /\ stored # NoColumn /\ draft = NoColumn
    /\ stored' \in Column
    /\ UNCHANGED <<dtype, draft>>

(* A cast to the type the column has already leaves the cells alone.       *)
Recast ==
    /\ op' = "cast"
    /\ stored # NoColumn /\ draft = NoColumn
    /\ dtype' \in Types
    /\ stored' = IF dtype' = dtype THEN stored ELSE Converted(stored, dtype')
    /\ UNCHANGED draft

Remove ==
    /\ op' = "delete"
    /\ stored # NoColumn /\ draft = NoColumn
    /\ dtype' = NoColumn
    /\ stored' = NoColumn
    /\ UNCHANGED draft

(* Calls that may change how the field is laid out, never what it holds,   *)
(* and calls that fail before they have replaced anything.                 *)
Keep ==
    /\ op' \in {"open", "close", "compress", "decompress", "rename",
               "update_header", "failed", "panic"}
    /\ UNCHANGED <<dtype, stored, draft>>

ColNext ==
    \/ Provide \/ EditStored \/ EditDraft \/ Publish
    \/ Replace \/ Recast \/ Remove \/ Keep

ColSpec == ColInit /\ [][ColNext]_colVars
============================================================================

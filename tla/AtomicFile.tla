----------------------------- MODULE AtomicFile ----------------------------
(***************************************************************************)
(* What replacing a file through a temporary one promises: the file always *)
(* holds one whole content; a replacement swaps it in one step; after a    *)
(* power failure it holds the content that had reached the disk last, also *)
(* a whole one.  Nothing says when a replacement reaches the disk.         *)
(***************************************************************************)
CONSTANT Contents

VARIABLES
    current,    \* what a process reads
    safe        \* what it would read after a power failure

Init == current \in Contents /\ safe = current

Replace == current' \in Contents /\ UNCHANGED safe
Persist == safe' = current /\ UNCHANGED current
PowerFailure == current' = safe /\ UNCHANGED safe

AtomicSpec == Init /\ [][Replace \/ Persist \/ PowerFailure]_<<current, safe>>
============================================================================

--------------------------- MODULE MCFieldReplace --------------------------
(* FieldReplace with a cast next to a rewrite, or next to an update.       *)
EXTENDS FieldReplace, TLC

CONSTANTS rewriter, caster, updater

RewriteAndCast == (rewriter :> "rewrite") @@ (caster :> "cast")
UpdateAndCast == (updater :> "update") @@ (caster :> "cast")
============================================================================

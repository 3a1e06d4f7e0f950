SPECIFICATION Spec
CONSTANTS
    rewriter = rewriter
    caster = caster
    updater = updater
    Actors = {rewriter, caster}
    Kind <- RewriteAndCast
    Inodes = {i1, i2, i3, i4}
    Path = path
    SharedTmp = tmp
    Nil = Nil
    MaxVersion = 3
INVARIANT WholeAfterPowerFailure
PROPERTY ReplaceIsAtomic

SPECIFICATION Spec
CONSTANTS
    rewriter = rewriter
    caster = caster
    updater = updater
    Actors = {updater, caster}
    Kind <- UpdateAndCast
    Inodes = {i1, i2, i3, i4}
    Path = path
    SharedTmp = tmp
    Nil = Nil
    MaxVersion = 3
PROPERTY PublishesItsOwn

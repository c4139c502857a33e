CONSTANTS
    Names <- MCNames
    NSObject = "n"
    InitialSuper <- MCSuper
    baseMethods <- MCBase
    Categories <- MCCategories
    Bundles <- MCBundles
    Sels = {"retain", "foo"}
    Lookups <- MCLookups
    Replacement = "new"
    Superclasses = {"n", "a"}
    ATTACH_BUFSIZ = 2
    MaxOperations = 3
    nil = nil  t1 = t1  t2 = t2  None = None  NoLoad = NoLoad
SPECIFICATION MCSpec
INVARIANTS CustomFlagsSound CachesFresh NewestCategoryWins ClassDataSound 
CHECK_DEADLOCK FALSE

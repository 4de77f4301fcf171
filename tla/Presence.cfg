SPECIFICATION Spec
CONSTANTS
    Foo = Foo
    FOO = FOO
    Bar = Bar
    Baz = Baz
    Names <- MCNames
    simplify_sn <- MCsimplify
    IdleTimes <- MCIdleTimes
    Offline = Offline
INVARIANTS
    ListsAgree
    ListSorted
    CountExact
    NoticesTellTheList
PROPERTIES
    AbsSpec

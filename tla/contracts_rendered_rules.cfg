SPECIFICATION MCSpec
CONSTANTS
    Kinds = {"mirror"}
    Key = {a, ct, cl}
    Spelling = {plain, other}
    ContentType = ct
    ContentLength = cl
    MaxEntries = 2
    Composed = Composed
    True = True
    False = False
    Tuple = Tuple
    NoRef = NoRef
    Dangling = Dangling
    NoProps = NoProps
    R = R
    A = A
    Rb1 = Rb1
    Rb2 = Rb2
    Ru = Ru
    Ab1 = Ab1
    Au = Au
    LS = LS
    LI = LI
    Arr = Arr
    Row0 = Row0
    Base = Base
    Base2 = Base2
    Rowb = Rowb
    F1 = F1
    F2 = F2
    G = G
    H = H
    Index = Index
    AName = AName
    Absent = Absent
    NullForm = NullForm
    BadValue = BadValue
    BoolForm = BoolForm
    TupleForm = TupleForm
    Unset = Unset
    Omitted = Omitted
    Dot = Dot
    Deepest = 5
INVARIANT
    RenderedRulesAgree
CHECK_DEADLOCK FALSE

SPECIFICATION Spec
CONSTANTS
    Node = {n1, n2, n3, n4}
    NULL = NULL
INVARIANTS
    LinksRepresentOrder
    DelFindsItsArgument
PROPERTIES
    ImplementsListSpec

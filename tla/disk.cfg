SPECIFICATION Spec
CONSTANTS
    Steps = {1, 2}
    MaxFile = 6
    Every = 1
    MaxAnchors = 2
    MaxRows = 3
    MaxMishaps = 2
    MaxPins = 2
    Queries <- MCQueries
INVARIANTS LayoutOK Durable RestoreIsRescan BooksMatch ReaderExact
PROPERTY NeverForgets
CONSTRAINT Promised

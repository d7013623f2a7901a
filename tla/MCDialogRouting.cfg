SPECIFICATION SpecDialog
CONSTANTS
    e1 = e1
    e2 = e2
    l = l
    s = s
    a = a
    b = b
    Edges <- MCEdges
    Loose = {l}
    Strict = {s}
    Caller = a
    Callee = b
    Users = {"alice", "bob", "carol"}
    NoToken = NoToken
    Unreadable = Unreadable
    Scenes <- MCScenes
INVARIANTS
  InDialogReachesPeer
  LoopsAreExactlyRepeats
  GoverningTokenNamesPresenter

CONSTANT Requests <- MCRequests
SPECIFICATION MCSpec
INVARIANTS WriteLands WholeCommands

SPECIFICATION Spec
INVARIANT LateEntriesRight

------------------------- MODULE MCRepositoryEvents -------------------------
EXTENDS RepositoryEvents

Update(r) == [reason |-> "updated", repo |-> r, previous |-> r, ref |-> "main"]
Rename(old, new) == [reason |-> "renamed", repo |-> new, previous |-> old, ref |-> "none"]

\* Two updates that coalesce, the repository's rename, and an update of a
\* repository that took the old name.
MCFeed == <<Update("a"), Update("a"), Rename("a", "b"), Update("a")>>
=============================================================================

-------------------------- MODULE MCContributorsScan --------------------------
(* Instances of ContributorsScan for TLC.                                    *)
EXTENDS ContributorsScan

\* Repository a has two pages of commits, b has one, by one of a's authors.
Commits == [r \in Repos |-> IF r[2] = "a" THEN <<<<"ann", "bob">>, <<"ann">>>> ELSE <<<<"ann">>>>]

\* No two repositories share a cache file.
SameName == [n \in Names |-> n]

\* sanitizeFilename gives a/b and a_b one file.
SlashAndUnderscore == [n \in Names |-> "a_b"]

Repo(n) == <<"github", n>>
Lists(ls, ds, rs) == {[repos |-> l, detailed |-> d, readCache |-> r] : l \in ls, d \in ds, r \in rs}

\* The first command lists a repository twice, the second one lists it once.
Overlapping ==
  [c \in Commands |-> IF c = "first"
                      THEN Lists({<<Repo("a"), Repo("a")>>}, {FALSE}, {TRUE})
                      ELSE Lists({<<Repo("a")>>}, {FALSE}, BOOLEAN)]

\* Two repositories and every option.
AnyOptions ==
  [c \in Commands |-> Lists({<<Repo("a"), Repo("b")>>, <<Repo("a"), Repo("a")>>},
                            BOOLEAN, BOOLEAN)]

\* The same repository, with the detailed summary or without.
WithDetails == [c \in Commands |-> Lists({<<Repo("b")>>}, BOOLEAN, {TRUE})]

\* Two repositories of one group, by the names GitLab gives them.
OneFile == [c \in Commands |-> Lists({<<Repo("a/b"), Repo("a_b")>>}, {FALSE}, {TRUE})]
=============================================================================

----------------------------- MODULE Directory ------------------------------
(***************************************************************************)
(* How commands resolve what the user typed among what a server listed:    *)
(* to one thing, or, when that is not clear, to 0 and an error.            *)
(***************************************************************************)
EXTENDS Naturals, Sequences, FiniteSets

\* The only member of a set of IDs, 0 when there is none or more than one.
OnlyOne(ids) == IF Cardinality(ids) = 1 THEN CHOOSE id \in ids : TRUE ELSE 0

\* selectRecipient: the only exact answer, or the only answer when none is exact.
SelectRecipient(answers, exact) == OnlyOne(IF exact = {} THEN answers ELSE exact)

\* A server-advertised role is [id, name, alias, plain]: alias is what its name
\* starts with, plain that the name is no longer than that.  Roles are listed by
\* display name; an exact name or ID wins.
Exact(roles, asked) ==
  LET Named(r) == asked.text \in {r.id, r.name} IN SelectSeq(roles, Named)

Alike(roles, asked) ==
  LET SameKind(r) == asked.alias # "" /\ r.alias = asked.alias IN SelectSeq(roles, SameKind)

\* resolveSpaceRole: an alias must fit one role only.
ResolveSpaceRole(roles, asked) ==
  CASE Exact(roles, asked) # <<>> -> Exact(roles, asked)[1].id
    [] Exact(roles, asked) = <<>> /\ Len(Alike(roles, asked)) = 1 -> Alike(roles, asked)[1].id
    [] OTHER -> 0

\* resolveDirectRole: of several that fit, the plain one is taken.
ResolveDirectRole(roles, asked) ==
  LET Plain(r) == r.plain
      plain == SelectSeq(Alike(roles, asked), Plain)
  IN IF Exact(roles, asked) = <<>> /\ plain # <<>>
     THEN plain[1].id
     ELSE ResolveSpaceRole(roles, asked)
=============================================================================

----------------------------- MODULE HostInterface ----------------------------
(***************************************************************************)
(* validate_host_interface.py: the deny-by-default rules for an envelope,  *)
(* and what the documentation says they are.                               *)
(*                                                                         *)
(* A timestamp is a text: date and time up to the second ("local"), then   *)
(* the way the rest is spelt, a fraction of a second perhaps and a suffix. *)
(* Texts are compared as strings, and none is refused: the schema's        *)
(* date-time is not enforced.  Interface kinds and workspaces matter only  *)
(* by whether they agree with the envelope's, grant ids by whether they    *)
(* agree with the grant's.                                                 *)
(***************************************************************************)
EXTENDS Integers

NoTime == [half |-> FALSE, suffix |-> "never"]     \* a text that is no timestamp
TimeSpellings == [half : BOOLEAN, suffix : {"Z", "z", "+00:00", "+01:00", "-01:00"}]

CONSTANTS LocalTimes,      \* bound: the dates and times in the texts
          Spellings,       \* bound: how the rest of them may be spelt
          Capabilities,
          NoGrant
ASSUME HostBounds == LocalTimes \subseteq Int /\ Spellings \subseteq TimeSpellings \union {NoTime}

\* All timestamps are spelt in one way.
OneSpelling == \E s \in TimeSpellings : Spellings = {s}

Texts == [local : LocalTimes, spelling : Spellings]

\* The offset of a suffix is in units of local time, half a second is less than one.
Offset(suffix) == CASE suffix = "+01:00" -> 1 [] suffix = "-01:00" -> -1 [] OTHER -> 0
Instant(t) ==
  2 * (t.local - Offset(t.spelling.suffix)) + (IF t.spelling.half THEN 1 ELSE 0)

\* Where texts are equal up to the second the next character decides ("+", "-", ".",
\* "Z", "z" in this order), then the rest of the suffix.
SuffixRank == [x \in {"+00:00", "+01:00", "-01:00", ".5", "Z", "z", "never"} |->
                 CASE x = "+00:00" -> 0 [] x = "+01:00" -> 1 [] x = "-01:00" -> 2 [] x = ".5" -> 3
                   [] x = "Z" -> 4 [] x = "z" -> 5 [] x = "never" -> 6]
RestRank(s) == 7 * SuffixRank[IF s.half THEN ".5" ELSE s.suffix] + SuffixRank[s.suffix]

\* "<=" on the texts; a text that begins with a letter comes after all timestamps.
TextLE(s, t) ==
  \/ t.spelling = NoTime
  \/ /\ s.spelling # NoTime
     /\ \/ s.local < t.local
        \/ s.local = t.local /\ RestRank(s.spelling) <= RestRank(t.spelling)

Grants == [expiresAt : Texts, revoked : BOOLEAN, kindAgrees : BOOLEAN, workspaceAgrees : BOOLEAN,
           scope : SUBSET (Capabilities \union {"*"}) \ {{}}]

Envelopes == [decidedAt : Texts, grant : Grants \union {NoGrant}, result : {"allow", "deny"},
              requested : SUBSET Capabilities \ {{}}, receiptResult : {"allow", "deny"},
              receiptAgrees : BOOLEAN, schemaValid : BOOLEAN]

-------------------------------------------------------------------------------
(* grant_valid and check *)

GrantValid(env) ==
  LET g == env.grant
  IN /\ g # NoGrant /\ ~g.revoked /\ ~TextLE(g.expiresAt, env.decidedAt)
     /\ g.kindAgrees /\ g.workspaceAgrees
     /\ "*" \in g.scope \/ env.requested \subseteq g.scope

Check(env) ==
  /\ env.schemaValid
  /\ env.result = "allow" => GrantValid(env)
  /\ env.receiptResult = env.result
  /\ env.receiptAgrees

-------------------------------------------------------------------------------
(* What the documentation says: nothing is allowed, by the envelope or by its *)
(* receipt, without an admitting grant                                        *)

GrantAdmits(env) ==
  LET g == env.grant
  IN /\ g # NoGrant /\ ~g.revoked /\ g.kindAgrees /\ g.workspaceAgrees
     /\ NoTime \notin {env.decidedAt.spelling, g.expiresAt.spelling}
     /\ Instant(env.decidedAt) < Instant(g.expiresAt)
     /\ \A c \in env.requested : {c, "*"} \intersect g.scope # {}

DeniesByDefault(env) == "allow" \in {env.result, env.receiptResult} => GrantAdmits(env)
===============================================================================

----------------------------- MODULE Permissions -----------------------------
(***************************************************************************)
(* The permission language of pkg/rbac: what a permission of a role allows *)
(* and which permission a message needs.                                   *)
(*                                                                         *)
(* A permission and a message path are sequences of symbols.  A symbol     *)
(* stands for a run of characters: the separators and the wildcard are     *)
(* symbols of their own, every other run ("artifacts", "create") is one.   *)
(* The prefix test of Allows then differs from the byte test of the code   *)
(* only for patterns that cut such a run in two.                           *)
(***************************************************************************)
EXTENDS Naturals, Sequences

CONSTANTS
  Wildcard,  \* "*"
  Slash,     \* "/", separates the parts of a message path
  Dot,       \* ".", separates the parts of a permission
  Lower,     \* strings.ToLower, as a function on the other symbols
  Prefix     \* GlobalPermissionPrefix, one symbol

(* Permission.isWildcard *)
isWildcard(m) == m # << >> /\ m[Len(m)] = Wildcard

(* Permission.Allows: the pattern without its wildcard is a prefix of p.   *)
Allows(m, p) ==
  \/ /\ isWildcard(m)
     /\ ~isWildcard(p)
     /\ Len(m) - 1 <= Len(p)
     /\ \A i \in 1 .. Len(m) - 1 : p[i] = m[i]
  \/ /\ ~isWildcard(m)
     /\ m = p

(* Authorize.HasPermission over the permissions withRBAC left in the       *)
(* context: the exact entry first, then every pattern.                     *)
HasPermission(granted, p) ==
  p \in granted \/ \E m \in granted : Allows(m, p)

(* AuthZDecorator.resolvePermission: the prefix, a dot, and the path in    *)
(* lower case with its slashes turned into dots.                           *)
resolvePermission(path) ==
  <<Prefix, Dot>> \o
  [i \in 1 .. Len(path) |-> IF path[i] = Slash THEN Dot ELSE Lower[path[i]]]
=============================================================================

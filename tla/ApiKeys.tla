--------------------------------- MODULE ApiKeys ---------------------------------
(***************************************************************************)
(* One tenant's API keys as the web console manages them: create (which     *)
(* counts the active keys against the plan first), revoke, and rotate, which *)
(* creates a key without counting and then revokes the old one, whatever its *)
(* status.  Each action of the console is one READ COMMITTED transaction.    *)
(***************************************************************************)
EXTENDS Naturals, FiniteSets

CONSTANTS Key,       \* the keys that may ever be issued
          Console,   \* console requests in progress
          Limit      \* the plan's api_keys limit

Assumptions == Limit \in Nat

VARIABLES
  keys,      \* key -> "none" | "active" | "revoked"
  console,   \* console request -> "idle" | "counted"
  raced,     \* ghost: the counted requests beside whose count another key came in
  excess     \* ghost: keys created by a raced request, at the limit or not, and
             \* keys that replaced one that was not active any more

vars == <<keys, console, raced, excess>>

Active == {k \in Key : keys[k] = "active"}

Init ==
  /\ keys = [k \in Key |-> "none"]
  /\ console = [c \in Console |-> "idle"]
  /\ raced = {}
  /\ excess = 0

\* The requests that have counted and not yet created.
Counted == {c \in Console : console[c] = "counted"}

\* Mutant: the plan's limit is not checked before a key is created.
LimitUnchecked == TRUE

\* assertTenantWithinLimit(countActiveApiKeys)
BelowLimit == Cardinality(Active) < Limit

\* Mutant: a rotated key gets a status of its own.
RotatedWithStatus(k, n) == [keys EXCEPT ![n] = "active", ![k] = "rotated"]

\* rotateTenantApiKey: the new row, then the old one's update by id alone.
Rotated(k, n) == [keys EXCEPT ![n] = "active", ![k] = "revoked"]

CountKeys(c) ==
  /\ console[c] = "idle"
  /\ BelowLimit
  /\ console' = [console EXCEPT ![c] = "counted"]
  /\ UNCHANGED <<keys, raced, excess>>

CreateKey(c, n) ==
  /\ console[c] = "counted"
  /\ keys[n] = "none"
  /\ keys' = [keys EXCEPT ![n] = "active"]
  /\ console' = [console EXCEPT ![c] = "idle"]
  /\ raced' = Counted \ {c}
  /\ excess' = IF c \in raced THEN excess + 1 ELSE excess

CreateFails(c) ==
  /\ console[c] = "counted"
  /\ console' = [console EXCEPT ![c] = "idle"]
  /\ raced' = raced \ {c}
  /\ UNCHANGED <<keys, excess>>

\* revokeTenantApiKey: also of a key that is revoked already.
RevokeKey(k) ==
  /\ keys[k] # "none"
  /\ keys' = [keys EXCEPT ![k] = "revoked"]
  /\ UNCHANGED <<console, raced, excess>>

\* The page offers rotation for a key that was active when it was rendered: a
\* second submit rotates a revoked one and leaves one active key more.
RotateKey(k, n) ==
  /\ keys[k] # "none" /\ keys[n] = "none"
  /\ keys' = Rotated(k, n)
  /\ IF keys[k] = "active" THEN UNCHANGED <<raced, excess>>
                           ELSE raced' = Counted /\ excess' = excess + 1
  /\ UNCHANGED console

Next ==
  \/ \E c \in Console : CountKeys(c)
  \/ \E c \in Console, n \in Key : CreateKey(c, n)
  \/ \E c \in Console : CreateFails(c)
  \/ \E k \in Key : RevokeKey(k)
  \/ \E k, n \in Key : RotateKey(k, n)

Spec == Init /\ [][Next]_vars

-----------------------------------------------------------------------------
(* Properties *)

\* Every key and request has a status of its kind.
TypeOK ==
  /\ keys \in [Key -> {"none", "active", "revoked"}]
  /\ console \in [Console -> {"idle", "counted"}]
  /\ raced \subseteq Counted /\ excess \in Nat

\* Requests that count and create with no other key coming in between never pass
\* the plan's limit, in any order with revocations and rotations: the active keys
\* are at most the limit, plus one for every creation that was raced and for every
\* rotation of a key that was not active.
KeysWithinLimit == Cardinality(Active) <= Limit + excess

=============================================================================

---------------------------- MODULE KeyManagement ----------------------------
(***************************************************************************)
(* Key versions: src/services/crypto/keyManagement.ts.  The key material   *)
(* and RSA key pairs, which are handed to the caller and not stored, are   *)
(* left out.                                                               *)
(***************************************************************************)
EXTENDS Integers, Sequences, SequencesExt

CONSTANTS
  Purposes,    \* purposes keys are stored under
  MaxVersions  \* bound on the versions of one purpose

ASSUME KeyAssumption == MaxVersions \in Nat

VARIABLE keyStore  \* the key records of each purpose, oldest first

KeyInit == keyStore = [p \in Purposes |-> <<>>]

\* expires is "never", "later" or "past"
Key(version, expires) == [version |-> version, expires |-> expires, active |-> TRUE]

Retired(k) == [k EXCEPT !.active = FALSE]

\* The older versions are retired, whether the new one has expired or not.
StoreKey(p, expires) ==
  /\ Len(keyStore[p]) < MaxVersions
  /\ keyStore' = [keyStore EXCEPT ![p] =
       Append([i \in DOMAIN @ |-> Retired(@[i])], Key(Len(@) + 1, expires))]

\* Keys made by rotateKey never expire.
RotateKey(p) == StoreKey(p, "never")

KeyExpires(p) ==
  \E i \in DOMAIN keyStore[p] :
    /\ keyStore[p][i].expires = "later"
    /\ keyStore' = [keyStore EXCEPT ![p][i].expires = "past"]

Usable(k) == k.active /\ k.expires # "past"

\* The versions getActiveKey may return: the first usable one, if any.
GetActiveKey(p) == SelectInSeq(keyStore[p], Usable)
GetKeyVersion(p, v) == SelectInSeq(keyStore[p], LAMBDA k : k.version = v)

KeyNext ==
  \E p \in Purposes :
    \/ \E expires \in {"never", "later", "past"} : StoreKey(p, expires)
    \/ RotateKey(p)
    \/ KeyExpires(p)

KeySpec == KeyInit /\ [][KeyNext]_keyStore

KeyTypeOK ==
  \A p \in Purposes :
    /\ Len(keyStore[p]) <= MaxVersions
    /\ \A i \in DOMAIN keyStore[p] :
         keyStore[p][i] \in [version : Nat, expires : {"never", "later", "past"},
                             active : BOOLEAN]

\* getActiveKey returns the newest key or, once that has expired, none: a
\* superseded key is never used again, although it can be found by its version.
NewestKeyOnly ==
  \A p \in Purposes :
    LET newest == Len(keyStore[p])
    IN  /\ GetActiveKey(p) \in {0, newest}
        /\ GetActiveKey(p) = 0 <=> newest = 0 \/ keyStore[p][newest].expires = "past"
        /\ \A v \in 1 .. newest : GetKeyVersion(p, v) = v
=============================================================================

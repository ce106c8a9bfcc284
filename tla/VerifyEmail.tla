----------------------------- MODULE VerifyEmail -----------------------------
(***************************************************************************)
(* Verification tokens: src/services/email/verifyEmail.ts.                 *)
(***************************************************************************)
EXTENDS FiniteSets

CONSTANTS
  Tokens,     \* tokens that may be generated, each once
  Addresses,  \* email addresses
  Kinds       \* token types; "email_verification" is one of them

ASSUME VerifyAssumption == "email_verification" \in Kinds

NoRecord == [email |-> "none", type |-> "none"]

VARIABLES
  tokenStore,  \* the record of each token, or NoRecord
  used,        \* tokens with a usedAt
  expired,     \* tokens whose expiresAt has passed
  sending,     \* tokens whose email sendVerificationEmail awaits
  confirmed,   \* history: tokens for which an email address was returned
  revoked      \* history: tokens revoked

verifyVars == <<tokenStore, used, expired, sending, confirmed, revoked>>

VerifyInit ==
  /\ tokenStore = [t \in Tokens |-> NoRecord]
  /\ used = {} /\ expired = {} /\ sending = {} /\ confirmed = {} /\ revoked = {}

Issued == {t \in Tokens : tokenStore[t] # NoRecord}

StoreToken(t, e, k) ==
  /\ t \notin Issued
  /\ tokenStore' = [tokenStore EXCEPT ![t] = [email |-> e, type |-> k]]
  /\ UNCHANGED <<used, expired, confirmed, revoked>>

GenerateVerificationToken(t, e, k) == StoreToken(t, e, k) /\ UNCHANGED sending

\* sendVerificationEmail up to its await.
SendVerificationEmail(t, e) ==
  /\ StoreToken(t, e, "email_verification")
  /\ sending' = sending \union {t}

\* The email was sent or not; the token stays in either case, and may have been
\* revoked or have expired meanwhile.
SendingEnds(t) ==
  /\ t \in sending
  /\ sending' = sending \ {t}
  /\ UNCHANGED <<tokenStore, used, expired, confirmed, revoked>>

\* Mutant: usedAt is not set.
ValidateTwice(t, expected) ==
  /\ t \in Issued \ (used \union expired)
  /\ expected \in {"any", tokenStore[t].type}
  /\ confirmed' = confirmed \union {t}
  /\ UNCHANGED <<tokenStore, used, expired, sending, revoked>>

\* The checks in order; an unknown, used, expired or mismatching token changes nothing.
ValidateVerificationToken(t, expected) ==
  /\ t \in Issued \ (used \union expired)
  /\ expected \in {"any", tokenStore[t].type}
  /\ used' = used \union {t}
  /\ confirmed' = confirmed \union {t}
  /\ UNCHANGED <<tokenStore, expired, sending, revoked>>

RevokeTokensForEmail(e) ==
  LET open == {t \in Issued \ used : tokenStore[t].email = e}
  IN  /\ used' = used \union open
      /\ revoked' = revoked \union open
      /\ UNCHANGED <<tokenStore, expired, sending, confirmed>>

Expires(t) ==
  /\ t \in Issued \ expired
  /\ expired' = expired \union {t}
  /\ UNCHANGED <<tokenStore, used, sending, confirmed, revoked>>

VerifyNext ==
  \/ \E t \in Tokens :
       \/ \E e \in Addresses : \E k \in Kinds : GenerateVerificationToken(t, e, k)
       \/ \E e \in Addresses : SendVerificationEmail(t, e)
       \/ SendingEnds(t) \/ Expires(t)
       \/ \E expected \in Kinds \union {"any"} : ValidateVerificationToken(t, expected)
  \/ \E e \in Addresses : RevokeTokensForEmail(e)

VerifySpec == VerifyInit /\ [][VerifyNext]_verifyVars

VerifyTypeOK ==
  /\ tokenStore \in [Tokens -> {NoRecord} \union [email : Addresses, type : Kinds]]
  /\ used \subseteq Issued /\ expired \subseteq Issued /\ sending \subseteq Issued
  /\ confirmed \subseteq Issued /\ revoked \subseteq Issued

\* Every token ends one way: confirmed once, or revoked, and none is both, in
\* whatever order emails, validations, revocations and expiry come.
TokensSpentOnce ==
  /\ confirmed \union revoked = used
  /\ confirmed \cap revoked = {}
=============================================================================

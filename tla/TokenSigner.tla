----------------------------- MODULE TokenSigner -----------------------------
(***************************************************************************)
(* JSON web tokens: src/services/crypto/tokenSigner.ts.                    *)
(*                                                                         *)
(* The jsonwebtoken package is external.  sign throws, changing nothing,   *)
(* if the issuer or the audience it is passed is undefined; it takes the   *)
(* algorithm "none" beside a secret, and the token then has no signature.  *)
(* verify looks at the signature, nbf, exp, the audience and the issuer,   *)
(* in this order, and asks for neither of the last two if it is passed as  *)
(* undefined or empty.                                                     *)
(*                                                                         *)
(* Left out: an nbf in the payload, which is a notBefore; other options of *)
(* sign, which name a claim nobody verifies or move the expiry, or whose   *)
(* values throw; and those of verify which only refuse more.               *)
(***************************************************************************)
EXTENDS Integers, Sequences

CONSTANTS
  Secrets,        \* secrets the signer may be configured with
  Claims,         \* strings that may be an issuer or an audience
  SignOptions,    \* options of callers who sign, as functions on the keys given
  VerifyOptions,  \* and of callers who verify
  MaxSigned       \* bound on tokens signed

NoClaim == "undefined"

ASSUME SignerAssumption ==
  /\ "change-in-production" \in Secrets /\ NoClaim \notin Claims /\ MaxSigned \in Nat
  /\ \A o \in SignOptions :
       /\ DOMAIN o \subseteq {"issuer", "audience", "notBefore", "algorithm"}
       /\ "issuer" \in DOMAIN o => o["issuer"] \in Claims \union {NoClaim}
       /\ "audience" \in DOMAIN o => o["audience"] \in SUBSET (Claims \union {NoClaim})
       /\ "notBefore" \in DOMAIN o => o["notBefore"] \in {"past", "future"}
       /\ "algorithm" \in DOMAIN o => o["algorithm"] \in {"HS256", "none"}
  /\ \A o \in VerifyOptions :
       /\ DOMAIN o \subseteq {"issuer", "audience", "ignoreNotBefore", "ignoreExpiration"}
       /\ \A k \in DOMAIN o \cap {"issuer", "audience"} : o[k] \in Claims \union {NoClaim}
       /\ \A k \in DOMAIN o \ {"issuer", "audience"} : o[k] \in BOOLEAN

\* Empty secrets, with which every sign and verify throws, are left out.
Configs ==
  [secret : Secrets, issuer : Claims \union {NoClaim}, audience : Claims \union {NoClaim}]

VARIABLES
  tokenConfig,  \* the configuration in force
  signed,       \* tokens handed out: kind, configuration, claims, whether sealed
  outdated,     \* those whose exp has passed
  premature     \* those whose nbf is still to come

signerVars == <<tokenConfig, signed, outdated, premature>>

SignerInit ==
  /\ tokenConfig = [secret |-> "change-in-production", issuer |-> NoClaim, audience |-> NoClaim]
  /\ signed = <<>> /\ outdated = {} /\ premature = {}

ConfigureTokenSigner(c) == tokenConfig' = c /\ UNCHANGED <<signed, outdated, premature>>

\* The options given are spread after the defaults.
SpreadAfter(defaults, o) ==
  [k \in DOMAIN defaults |-> IF k \in DOMAIN o THEN o[k] ELSE defaults[k]]

Sign(kind, defaults, o) ==
  LET with == SpreadAfter(defaults, o)
  IN  /\ with["issuer"] # NoClaim /\ NoClaim \notin with["audience"]
      /\ Len(signed) < MaxSigned
      /\ signed' = Append(signed, [kind |-> kind, under |-> tokenConfig, issuer |-> with["issuer"],
                                   audience |-> with["audience"],
                                   sealed |-> with["algorithm"] # "none"])
      /\ premature' = premature \union
                        (IF with["notBefore"] = "future" THEN {Len(signed) + 1} ELSE {})
      /\ UNCHANGED <<tokenConfig, outdated>>

\* Both functions pass the configured issuer on, even if there is none; only the
\* first passes an audience.
SignAccessToken(o) ==
  Sign("access", [issuer |-> tokenConfig.issuer, audience |-> {tokenConfig.audience},
                  notBefore |-> "past", algorithm |-> "HS256"], o)
SignRefreshToken(o) ==
  Sign("refresh", [issuer |-> tokenConfig.issuer, audience |-> {},
                   notBefore |-> "past", algorithm |-> "HS256"], o)

ExpComes(n) ==
  n \notin outdated /\ outdated' = outdated \union {n} /\ UNCHANGED <<tokenConfig, signed, premature>>
NbfComes(n) ==
  n \in premature /\ premature' = premature \ {n} /\ UNCHANGED <<tokenConfig, signed, outdated>>

Accepts(asked, claims) == asked \in {NoClaim, ""} \union claims

VerifyToken(n, o) ==
  LET token == signed[n]
      asks == SpreadAfter([issuer |-> tokenConfig.issuer, audience |-> tokenConfig.audience,
                           ignoreNotBefore |-> FALSE, ignoreExpiration |-> FALSE], o)
  IN  IF ~ token.sealed \/ token.under.secret # tokenConfig.secret THEN "invalid"
      ELSE IF n \in premature /\ ~ asks["ignoreNotBefore"] THEN "premature"
      ELSE IF n \in outdated /\ ~ asks["ignoreExpiration"] THEN "expired"
      ELSE IF /\ Accepts(asks["audience"], token.audience)
              /\ Accepts(asks["issuer"], {token.issuer}) THEN "valid" ELSE "invalid"

NoOptions == <<>>
IsTokenExpired(n) == VerifyToken(n, NoOptions) = "expired"

SignerNext ==
  \/ \E c \in Configs : ConfigureTokenSigner(c)
  \/ \E o \in SignOptions : SignAccessToken(o) \/ SignRefreshToken(o)
  \/ \E n \in DOMAIN signed : ExpComes(n) \/ NbfComes(n)

SignerSpec == SignerInit /\ [][SignerNext]_signerVars

SignerTypeOK ==
  /\ tokenConfig \in Configs
  /\ signed \in Seq([kind : {"access", "refresh"}, under : Configs, issuer : Claims,
                     audience : SUBSET Claims, sealed : BOOLEAN])
  /\ outdated \subseteq DOMAIN signed /\ premature \subseteq DOMAIN signed

\* Without its signature, or once the secret is another one, a token is refused
\* whatever options verifyToken is called with.  Otherwise it is valid, while its
\* time is, for whoever asks for an issuer and an audience it was signed with by
\* option or configuration: an access token signed without options for its own
\* configuration, and for every one that differs in what it does not ask for.  A
\* refresh token without an audience of its own is refused by every configuration
\* under which access tokens can be signed without options, unless the audience is
\* empty.  isTokenExpired tells an expired token of the signer, and no other.
SignedTokensVerify ==
  \A n \in DOMAIN signed :
    LET token == signed[n]
        ours  == token.sealed /\ token.under.secret = tokenConfig.secret
        living == n \notin outdated \union premature
        plain == token.issuer = token.under.issuer /\ token.audience = {token.under.audience}
    IN  /\ ~ ours => \A o \in VerifyOptions : VerifyToken(n, o) = "invalid"
        /\ ours /\ living =>
             \A o \in VerifyOptions :
               /\ {"issuer", "audience"} \subseteq DOMAIN o
               /\ o["issuer"] = token.issuer /\ o["audience"] \in token.audience
               => VerifyToken(n, o) = "valid"
        /\ ours /\ plain /\ token.kind = "access" =>
             (VerifyToken(n, NoOptions) = "valid"
                <=> /\ living
                    /\ tokenConfig.issuer \in {NoClaim, "", token.under.issuer}
                    /\ tokenConfig.audience \in {NoClaim, "", token.under.audience})
        /\ token.kind = "refresh" /\ token.audience = {}
             /\ tokenConfig.audience \notin {NoClaim, ""} =>
               VerifyToken(n, NoOptions) # "valid"
        /\ IsTokenExpired(n) <=> ours /\ n \in outdated /\ n \notin premature
=============================================================================

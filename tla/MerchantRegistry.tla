-------------------------- MODULE MerchantRegistry --------------------------
(***************************************************************************)
(* The tables of PostgresMerchantRegistry for one merchant: its status,    *)
(* its origins and its service keys.  Every operation is one statement.    *)
(* Operators approve and revoke; the merchant's owner adds origins and     *)
(* keys.  Who may call what (the sessions and operator tokens of the       *)
(* handlers) is left out, as is the validation of texts.  Times are left   *)
(* out: a key is valid or it is not.                                       *)
(***************************************************************************)
CONSTANTS Origins, Keys

VARIABLES merchant,  \* merchants.status, "none" before the registration
          origin,    \* merchant_origins.status of each origin
          key        \* whether a service key resolves

merchantVars == <<merchant, origin, key>>

MerchantStatuses == {"none", "pending", "active", "suspended", "closed"}
OriginStatuses   == {"none", "pending", "verified", "revoked"}
KeyStates        == {"none", "valid", "invalid"}

MerchantTypeOK ==
  /\ merchant \in MerchantStatuses
  /\ origin \in [Origins -> OriginStatuses]
  /\ key \in [Keys -> KeyStates]

MerchantInit ==
  /\ merchant = "none"
  /\ origin = [o \in Origins |-> "none"]
  /\ key = [k \in Keys |-> "none"]

\* The public request cannot set a status; slug and id are unique.
CreateMerchant ==
  /\ merchant = "none"
  /\ merchant' = "pending"
  /\ UNCHANGED <<origin, key>>

\* handleOperatorMerchantStatus: any of the three, whatever the status was.
UpdateMerchantStatus(s) ==
  /\ merchant # "none"
  /\ s \in {"active", "suspended", "closed"}
  /\ merchant' = s
  /\ UNCHANGED <<origin, key>>

AddOrigin(o) ==
  /\ merchant # "none" /\ origin[o] = "none"
  /\ origin' = [origin EXCEPT ![o] = "pending"]
  /\ UNCHANGED <<merchant, key>>

UpdateOriginStatus(o, s) ==
  /\ origin[o] # "none"
  /\ s \in {"verified", "revoked"}
  /\ origin' = [origin EXCEPT ![o] = s]
  /\ UNCHANGED <<merchant, key>>

\* A key may be added with a validity that has not begun.
AddKey(k) ==
  /\ merchant # "none" /\ key[k] = "none"
  /\ \E s \in {"valid", "invalid"} : key' = [key EXCEPT ![k] = s]
  /\ UNCHANGED <<merchant, origin>>

\* The time of the revocation is the caller's: one that lies in the future
\* leaves, and makes, the key valid.  So does time: a validity begins or ends.
RevokeKey(k) ==
  /\ key[k] # "none"
  /\ \E s \in {"valid", "invalid"} : key' = [key EXCEPT ![k] = s]
  /\ UNCHANGED <<merchant, origin>>

ResolvesKey(k) == key[k] = "valid"

OperatorStep ==
  \/ \E s \in MerchantStatuses : UpdateMerchantStatus(s)
  \/ \E o \in Origins, s \in OriginStatuses : UpdateOriginStatus(o, s)

OwnerStep ==
  \/ CreateMerchant
  \/ \E o \in Origins : AddOrigin(o)
  \/ \E k \in Keys : AddKey(k) \/ RevokeKey(k)

MerchantNext == OperatorStep \/ OwnerStep
=============================================================================

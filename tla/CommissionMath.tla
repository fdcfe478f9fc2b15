--------------------------- MODULE CommissionMath ---------------------------
(***************************************************************************)
(* calculateCommission of the protocol package: what a payment is worth to *)
(* the referrer and to the protocol, in atomic units.  Amounts are bigints *)
(* in the code, so that nothing overflows; divisions round down.           *)
(***************************************************************************)
EXTENDS Integers

Bps == 0 .. 10000   \* the rates the function accepts

ProtocolFee(commission, feeBps) == (commission * feeBps) \div 10000

CalculateCommission(amount, commissionBps, feeBps) ==
  LET commission == (amount * commissionBps) \div 10000
      fee        == ProtocolFee(commission, feeBps)
  IN  [commission |-> commission, protocolFee |-> fee,
       referrerCredit |-> commission - fee]
=============================================================================

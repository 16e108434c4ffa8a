-------------------------- MODULE TimestampsProofs --------------------------
(***************************************************************************)
(* What the window predicates of timestamps.py mean: each is the shifted   *)
(* bound the protocol speaks of, and the truncation of a written timestamp *)
(* moves an edge of a window by less than one microsecond.                 *)
(***************************************************************************)
EXTENDS Timestamps, TLAPS

(* The rearranged comparison of has_expired, made so that no bound is ever *)
(* shifted, is the comparison with the shifted bound.                      *)
THEOREM ExpiryIsShifted ==
  ASSUME NEW now \in Int, NEW expiry \in Int, NEW skew \in Nat
  PROVE  HasExpired(now, expiry, skew) <=> now >= expiry + skew
BY DEF HasExpired

(* The same of is_not_yet_valid. *)
THEOREM StartIsShifted ==
  ASSUME NEW now \in Int, NEW notBefore \in Int, NEW skew \in Nat
  PROVE  IsNotYetValid(now, notBefore, skew) <=> now + skew < notBefore
BY DEF IsNotYetValid

(* A parsed instant is the whole microsecond at or just before the written *)
(* one.                                                                    *)
LEMMA ParsedInstantTruncates ==
  ASSUME NEW ts \in WrittenTimestamps
  PROVE  /\ ParsedInstant(ts) \in Int
         /\ SubMicro * ParsedInstant(ts) <= ts.at
         /\ ts.at < SubMicro * (ParsedInstant(ts) + 1)
BY SubMicroAssumption DEF ParsedInstant, WrittenTimestamps

(* For whole numbers p and t: a written instant truncated to p is before   *)
(* (at or after) a whole microsecond exactly when p is.                    *)
LEMMA WholeMicroseconds ==
  ASSUME NEW ts \in WrittenTimestamps, NEW t \in Int
  PROVE  t <= ParsedInstant(ts) <=> t * SubMicro <= ts.at
<1> DEFINE p == ParsedInstant(ts)
<1>1. p \in Int /\ SubMicro * p <= ts.at /\ ts.at < SubMicro * (p + 1) /\ ts.at \in Int
  BY ParsedInstantTruncates DEF WrittenTimestamps
<1>2. SubMicro \in Nat /\ SubMicro > 0
  BY SubMicroAssumption
<1>3. ASSUME t <= p PROVE t * SubMicro <= ts.at
  <2>1. t * SubMicro <= p * SubMicro
    BY <1>1, <1>2, <1>3
  <2> QED BY <2>1, <1>1, <1>2
<1>4. ASSUME ~(t <= p) PROVE ~(t * SubMicro <= ts.at)
  <2>1. (p + 1) * SubMicro <= t * SubMicro
    BY <1>1, <1>2, <1>4
  <2> QED BY <2>1, <1>1, <1>2
<1> QED BY <1>3, <1>4

(* A NotOnOrAfter, parsed and compared: a reading t passes exactly when    *)
(* every instant of its microsecond, put back by the skew, is before the   *)
(* bound as written.  Truncation never keeps a window open too long.       *)
THEOREM ExpiryAsWritten ==
  ASSUME NEW ts \in WrittenTimestamps, NEW t \in Int, NEW skew \in Nat
  PROVE  ~HasExpired(t, ParsedInstant(ts), skew) <=> (t - skew + 1) * SubMicro <= ts.at
<1>1. ParsedInstant(ts) \in Int
  BY ParsedInstantTruncates
<1>2. ~HasExpired(t, ParsedInstant(ts), skew) <=> t - skew + 1 <= ParsedInstant(ts)
  BY <1>1, ExpiryIsShifted
<1>3. t - skew + 1 <= ParsedInstant(ts) <=> (t - skew + 1) * SubMicro <= ts.at
  BY WholeMicroseconds
<1> QED BY <1>2, <1>3

(* A NotBefore, parsed and compared: a reading t passes exactly when some  *)
(* instant of its microsecond, put forward by the skew, has reached the    *)
(* bound as written.  Truncation opens a window early by less than one     *)
(* microsecond.                                                            *)
THEOREM StartAsWritten ==
  ASSUME NEW ts \in WrittenTimestamps, NEW t \in Int, NEW skew \in Nat
  PROVE  ~IsNotYetValid(t, ParsedInstant(ts), skew) <=> (t + skew + 1) * SubMicro > ts.at
<1>1. ParsedInstant(ts) \in Int
  BY ParsedInstantTruncates
<1>2. ~IsNotYetValid(t, ParsedInstant(ts), skew) <=> ~(t + skew + 1 <= ParsedInstant(ts))
  BY <1>1, StartIsShifted
<1>3. t + skew + 1 <= ParsedInstant(ts) <=> (t + skew + 1) * SubMicro <= ts.at
  BY WholeMicroseconds
<1>4. (t + skew + 1) * SubMicro \in Int /\ ts.at \in Int
  BY SubMicroAssumption DEF WrittenTimestamps
<1> QED BY <1>2, <1>3, <1>4

=============================================================================

-------------------------------- MODULE Time --------------------------------
(* lib/time.c: expiry times.  An EdTime counts seconds from the epoch of the *)
(* index in 32 bits; two of its values are special.  EdTimeUnix and          *)
(* EdTimeTTL are 64 bits wide, beyond any clock: they are integers here.     *)
EXTENDS Integers

CONSTANT TimeInf                     \* UINT32_MAX

ASSUME TimeAssumption == TimeInf \in Nat /\ TimeInf > 2

ED_TIME_DELETE == 0
ED_TIME_MAX == TimeInf - 1
ED_TIME_INF == TimeInf

ed_time_from_unix(epoch, at) ==
  IF at > ED_TIME_MAX THEN ED_TIME_MAX
  ELSE IF at < 0 THEN ED_TIME_INF
  ELSE IF at <= epoch THEN ED_TIME_DELETE
  ELSE at - epoch

ed_time_to_unix(epoch, at) ==
  IF at = ED_TIME_INF THEN -1
  ELSE IF at = ED_TIME_DELETE THEN 0
  ELSE at + epoch

ed_expiry_at(epoch, ttl, at) ==
  IF ttl < 0 THEN ED_TIME_INF ELSE ed_time_from_unix(epoch, at + ttl)

ed_ttl_at(epoch, exp, at) ==
  LET ttl == ed_time_to_unix(epoch, exp) - at
  IN  IF exp = ED_TIME_INF THEN -1
      ELSE IF exp = ED_TIME_DELETE \/ ttl < 0 THEN 0 ELSE ttl

ed_expired_at(epoch, exp, at) ==
  /\ exp # ED_TIME_INF
  /\ exp = ED_TIME_DELETE \/ ed_time_to_unix(epoch, exp) <= at
=============================================================================

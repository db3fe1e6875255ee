---------------------------- MODULE CertSchedule ----------------------------
(***************************************************************************)
(* When the webhook looks at its serving certificate again (package        *)
(* scheduler).  Times are whole minutes.                                   *)
(***************************************************************************)
EXTENDS Integers

CONSTANT certRenewalPeriod   \* CERTRENEWALPERIOD after parseAppEnv clamped it

ASSUME PeriodAssumption == certRenewalPeriod \in Nat \ {0}

-----------------------------------------------------------------------------

AtMost(a, b)  == IF a > b THEN b ELSE a
AtLeast(a, b) == IF a < b THEN b ELSE a

\* parseAppEnv: 0 stands for a value that is absent or not a number.
ClampedPeriod(value, default, min, max) ==
    AtMost(AtLeast(IF value = 0 THEN default ELSE value, min), max)

renewalCheckUnfloored(minutesLeft) ==
    AtMost(minutesLeft - certRenewalPeriod + 1, AtLeast(AtMost(minutesLeft \div 3, certRenewalPeriod), 1))

\* Minutes until the next check of a certificate that lives minutesLeft more.
renewalCheckIntervalMinutes(minutesLeft) ==
    LET third   == IF minutesLeft < 0 THEN 0 ELSE minutesLeft \div 3
        maxWait == AtLeast(AtMost(third, certRenewalPeriod), 1)
    IN  AtLeast(AtMost(minutesLeft - certRenewalPeriod + 1, maxWait), 1)

MustRenewExpired(minutesLeft) == minutesLeft <= 0

\* checkCertExpireDate of material that can be parsed.
MustRenew(minutesLeft) == minutesLeft < certRenewalPeriod
=============================================================================

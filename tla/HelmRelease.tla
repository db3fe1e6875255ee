----------------------------- MODULE HelmRelease -----------------------------
(***************************************************************************)
(* What the Helm wrapper of the cluster manager makes of a stored release. *)
(* A release is the status and the chart version of its latest record;     *)
(* "junk" is a record that cannot be decoded, "pending" any of Helm's      *)
(* statuses that only a purge gets out of.                                 *)
(***************************************************************************)
EXTENDS Naturals

Version == 1 .. 2
Status  == {"none", "pending", "deployed", "failed", "junk"}
Release == [st : Status, ver : Version]

NoRelease    == [st |-> "none", ver |-> 1]
Deployed(v)  == [st |-> "deployed", ver |-> v]

planTrustsVersion(rel, want) ==
    CASE rel.ver = want      -> "skip"
      [] rel.st \in {"deployed", "failed"} -> "upgrade"
      [] OTHER               -> "purge"

\* Only a deployed release of the wanted version has converged; one that failed
\* is upgraded in place; the others are purged and installed again.
planReleaseAction(rel, want) ==
    CASE rel.st = "deployed" -> IF rel.ver = want THEN "skip" ELSE "upgrade"
      [] rel.st = "failed"   -> "upgrade"
      [] OTHER               -> "purge"

installedIfDeployed(rel) == rel.st = "deployed"

\* The driver's list skips what it cannot decode and only fails on no records.
CheckIfChartIsInstalled(rel) == rel.st # "none"
=============================================================================

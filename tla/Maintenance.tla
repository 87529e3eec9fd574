---------------------------- MODULE Maintenance -----------------------------
(***************************************************************************)
(* Signed maintenance windows: crates/openapi-core/src/maintenance.rs.     *)
(*                                                                         *)
(* The edge loads one manifest at boot.  Each request asks which window is *)
(* active at its own time: select_active walks the windows in order and    *)
(* keeps the best so far.                                                  *)
(***************************************************************************)
EXTENDS Integers, Sequences

CONSTANTS
  None,       \* an optional time that is not given, and no window
  Second,     \* milliseconds in a second of Retry-After
  SoftRetry   \* Retry-After of an open-ended soft phase, in seconds

ASSUME MaintenanceAssumption ==
  /\ None \notin Nat
  /\ Second \in Nat \ {0}
  /\ SoftRetry \in Nat

\* A window as the manifest writes it; `legacy` is the field not_after.
Windows(Times) ==
  [scope : {"fleet", "engine"}, notBefore : Times,
   hard : Times \cup {None}, soft : Times \cup {None}, legacy : Times \cup {None}]

-----------------------------------------------------------------------------
(***************************************************************************)
(* resolve_bounds                                                          *)
(***************************************************************************)

LegacyOnly(w) == w.hard = None /\ w.legacy # None

HardEnd(w) == IF w.hard # None THEN w.hard ELSE w.legacy

\* The soft phase of a window ends, or does not (None).
SoftEnd(w) == IF LegacyOnly(w) THEN w.legacy ELSE w.soft

Resolves(w) ==
  /\ HardEnd(w) # None
  /\ HardEnd(w) > w.notBefore
  /\ ~LegacyOnly(w) /\ w.soft # None => w.soft > HardEnd(w)

\* parse_manifest_bytes: one bad window rejects the manifest.
WellFormed(manifest) == \A n \in DOMAIN manifest : Resolves(manifest[n])

\* verify_and_parse: the file with its windows and its signature, under the key
\* that is compiled in.
Verified(file) == file.signed /\ WellFormed(file.windows)

\* try_load_from_env and apply_env_to_state.  No file is no error, and one that
\* is not verified is not loaded: the edge serves as if there were no windows.
Loaded(file) == IF file # None /\ Verified(file) THEN file.windows ELSE <<>>

-----------------------------------------------------------------------------
(***************************************************************************)
(* select_active, as the edge calls it: for no engine in particular.       *)
(***************************************************************************)

Phase(w, t) ==
  CASE t < w.notBefore                        -> "none"
    [] w.notBefore <= t /\ t <= HardEnd(w)    -> "hard"
    [] t > HardEnd(w) /\ LegacyOnly(w)        -> "none"
    [] t > HardEnd(w) /\ ~LegacyOnly(w)       ->
         IF SoftEnd(w) = None \/ t <= SoftEnd(w) THEN "soft" ELSE "none"

\* An engine's window says nothing of the edge as a whole.
Candidate(w, t) == w.scope = "fleet" /\ Phase(w, t) # "none"

\* None is later than every end (unwrap_or(u64::MAX)).
EndsLater(x, y) == y # None /\ (x = None \/ x > y)

\* Mutant: the window that ends last is better, whatever its phase.
BetterByEnd(w, best, t) ==
  EndsLater(IF Phase(w, t) = "hard" THEN HardEnd(w) ELSE SoftEnd(w),
            IF Phase(best, t) = "hard" THEN HardEnd(best) ELSE SoftEnd(best))

\* A hard phase is better than a soft one, then the later end.
Better(w, best, t) ==
  CASE Phase(w, t) = "hard" /\ Phase(best, t) = "soft" -> TRUE
    [] Phase(w, t) = "soft" /\ Phase(best, t) = "hard" -> FALSE
    [] Phase(w, t) = "hard" /\ Phase(best, t) = "hard" -> HardEnd(w) > HardEnd(best)
    [] Phase(w, t) = "soft" /\ Phase(best, t) = "soft" -> EndsLater(SoftEnd(w), SoftEnd(best))

SelectActive(manifest, t) ==
  LET best[n \in 0 .. Len(manifest)] ==
        IF n = 0 THEN None
        ELSE IF Candidate(manifest[n], t)
                  /\ (best[n - 1] = None \/ Better(manifest[n], best[n - 1], t))
             THEN manifest[n]
             ELSE best[n - 1]
  IN  best[Len(manifest)]

CeilDiv(x, y) == (x + y - 1) \div y

AtLeastOne(n) == IF n < 1 THEN 1 ELSE n

\* retry_after_secs of an active window.
RetryAfter(w, t) ==
  CASE Phase(w, t) = "hard" -> AtLeastOne(CeilDiv(HardEnd(w) - t, Second))
    [] Phase(w, t) = "soft" -> IF SoftEnd(w) = None THEN SoftRetry
                               ELSE AtLeastOne(CeilDiv(SoftEnd(w) - t, Second))

\* refuse_if_maintenance
RefuseIfMaintenance(manifest, t) ==
  LET active == SelectActive(manifest, t)
  IN  active # None /\ Phase(active, t) = "hard"

-----------------------------------------------------------------------------
(***************************************************************************)
(* What the choice must amount to, whatever the order of the windows.      *)
(***************************************************************************)

\* The fleet-wide windows in a phase at time t.
InPhase(manifest, t, phase) ==
  {w \in {manifest[n] : n \in DOMAIN manifest} : w.scope = "fleet" /\ Phase(w, t) = phase}
=============================================================================

------------------------------- MODULE QrWindow -------------------------------
(***************************************************************************)
(* What issuance and redemption of the rotating door codes of              *)
(* src/visitor.rs share: which code a door shows at an instant, when       *)
(* verify accepts it, and how the handlers of src/main.rs answer errors.   *)
(***************************************************************************)
EXTENDS Integers

CONSTANTS
    Minute,  \* 60 seconds in the code
    Grace    \* QR_GRACE_SECONDS

VisitorAction == {"check-in", "check-out"}

MinuteOf(at) == at \div Minute

\* issue keeps no state: the code of a door and action is a function of the
\* minute.
Issue(d, a, at) == [door_id |-> d, action |-> a, issued_minute |-> MinuteOf(at)]

\* Mutant: the grace period is added to the start of the minute.
ExpiresEarly(at) == MinuteOf(at) * Minute + Grace

\* The expiry that issue reports with the code.
ExpiresAt(at) == (MinuteOf(at) + 1) * Minute + Grace

\* Mutant: the window is one second too long.
LateWindow(c, at) ==
    /\ c.issued_minute * Minute <= at
    /\ at <= c.issued_minute * Minute + Minute + Grace + 1

\* The window of verify: outside it a code is refused as expired.
InWindow(c, at) ==
    /\ c.issued_minute * Minute <= at
    /\ at <= c.issued_minute * Minute + Minute + Grace

VisitorError ==
    {"InvalidAction", "InvalidDoor", "InvalidQr", "ExpiredQr",
     "NoticeNotAccepted", "InvalidVisitorName", "CapacityReached",
     "RateLimited", "VisitNotFound", "InvalidReceipt", "AlreadyCheckedOut"}

\* The code in the answer to an error.  What is wrong with a credential is not
\* told.
visitor_error(error) ==
    CASE error \in {"InvalidAction", "InvalidDoor", "NoticeNotAccepted",
                    "InvalidVisitorName"} -> "invalid_visitor_request"
      [] error \in {"InvalidQr", "ExpiredQr", "VisitNotFound",
                    "InvalidReceipt"} -> "invalid_visitor_credential"
      [] error = "CapacityReached" -> "visitor_capacity_reached"
      [] error = "RateLimited" -> "visitor_rate_limited"
      [] error = "AlreadyCheckedOut" -> "visitor_already_checked_out"
=============================================================================

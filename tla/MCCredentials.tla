--------------------------- MODULE MCCredentials ---------------------------
(* Instances of Credentials for TLC: the OTP of the invitation is 1, those *)
(* of forgotPassword follow.                                               *)
EXTENDS Credentials, TLC

MCCalls ==
  { [op |-> "forgot"],
    [op |-> "reset", otp |-> 1], [op |-> "reset", otp |-> 2],
    [op |-> "accept", otp |-> 1], [op |-> "accept", otp |-> 2],
    [op |-> "patch", status |-> "active"], [op |-> "patch", status |-> "inactive"] }

MCResets == { [op |-> "reset", otp |-> 1] }

Interchangeable == Permutations(Requests)
=============================================================================

--------------------------- MODULE SessionErrors ---------------------------
(***************************************************************************)
(* How a request for a tunnel or capture session can end without one, and  *)
(* which of these errors a loop may retry: CreateTunnelSession and         *)
(* CreateDependencyCaptureSession of src/internal/apiclient, with the      *)
(* texts run makes of some errors (src/internal/cli/run.go).  An error is  *)
(* the status and the code of the answer; the request itself goes through  *)
(* Client.do, which TokenRefresh models.                                   *)
(***************************************************************************)
EXTENDS Naturals

\* No HTTP response, or one that breaks off with a net.Error: the control
\* plane may have acted.
NoResponse == [status |-> 0, code |-> ""]

\* A credential store that a system or network error keeps from being read or
\* written: the error of the file or of the keyring's connection wraps a
\* syscall.Errno, which is a net.Error.
StoreFault == [status |-> 2, code |-> "store"]

\* ErrSignedOut for a 401, ErrNotSignedIn, stored credentials that cannot be
\* decoded or are incomplete, any other error of the keyring, and an answer of
\* the authorization server that is no token.
SignedOut == [status |-> 401, code |-> "signed_out"]

\* A 201 whose body is incomplete, too large, not JSON, or names another
\* endpoint, an expired or missing ticket, another protocol version or a
\* gateway that is not expected.
InvalidSession == [status |-> 201, code |-> "invalid"]

\* An error that is only a text.
PlainError == [status |-> 1, code |-> "text"]

\* The APIErrors, one for each class that is treated differently.
APIErrors ==
    {[status |-> 404, code |-> "endpoint_not_found"],
     [status |-> 409, code |-> "endpoint_already_connected"],
     [status |-> 409, code |-> "tunnel_session_pending"],
     [status |-> 409, code |-> "endpoint_virtual"],
     [status |-> 429, code |-> ""],
     [status |-> 500, code |-> ""],
     [status |-> 503, code |-> ""]}

SessionErrors == APIErrors \cup {NoResponse, StoreFault, SignedOut, InvalidSession}

mapTunnelSessionError(e) ==
    IF e.code \in {"endpoint_name_unavailable", "invalid_endpoint_name", "endpoint_virtual"}
    THEN PlainError ELSE e

mapCaptureSessionError(e) == IF e.code = "endpoint_not_found" THEN PlainError ELSE e

IsTemporarySessionConflict(e) ==
    /\ e.status = 409
    /\ e.code \in {"endpoint_already_connected", "tunnel_session_pending"}

IsRetryable(e) ==
    \/ IsTemporarySessionConflict(e)
    \/ e.status \in {429, 502, 503, 504}
    \/ e \in {NoResponse, StoreFault}

=============================================================================

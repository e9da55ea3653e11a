---------------------------- MODULE OperatorRoutes -----------------------------
(***************************************************************************)
(* The operator routes as their client meets them: the statuses each route *)
(* of hono-adapter.ts can answer with, behind the two middlewares, and what *)
(* each function of the client (lib/operator.ts) makes of a status and of  *)
(* a body that has, or lacks, the field the function looks for.            *)
(*                                                                         *)
(* The ids a console sends are well formed: the 400 of a malformed one is  *)
(* left out.                                                               *)
(***************************************************************************)
EXTENDS Naturals

-----------------------------------------------------------------------------
(* The service *)

CreateRoute      == {201, 400, 413}
ListRoute        == {200}
EditRoute        == {200, 400, 404, 413}
DiscardRoute     == {200, 404}
AdvertiseRoute   == {200, 404, 409}
ReadvertiseRoute == {200, 404, 409}
CancelRoute      == {200, 404}
FinalizeRoute    == {200, 404, 409}
DetailRoute      == {200}
ExportRoute      == {200}
DismissRoute     == {200, 404}
TestPeersRoute   == {200, 400, 404, 409, 413, 502, 503}
ToggleRoute      == {200}
BroadcastRoute   == {200}
LoadRoute        == {200}
SaveRoute        == {200, 400, 413}
LogoutRoute      == {200}
ProbeRoute       == {200}
LoginRoute       == {200, 400, 401, 413, 429}

GatedVerbs ==
    {"create", "list", "edit", "discard", "advertise", "readvertise", "cancel", "finalize",
     "detail", "export", "dismiss", "testPeers", "pause", "broadcast", "load", "save", "logout"}

RouteOf(verb) ==
    CASE verb = "create" -> CreateRoute
      [] verb = "list" -> ListRoute
      [] verb = "edit" -> EditRoute
      [] verb = "discard" -> DiscardRoute
      [] verb = "advertise" -> AdvertiseRoute
      [] verb = "readvertise" -> ReadvertiseRoute
      [] verb = "cancel" -> CancelRoute
      [] verb = "finalize" -> FinalizeRoute
      [] verb = "detail" -> DetailRoute
      [] verb = "export" -> ExportRoute
      [] verb = "dismiss" -> DismissRoute
      [] verb = "testPeers" -> TestPeersRoute
      [] verb = "pause" -> ToggleRoute
      [] verb = "broadcast" -> BroadcastRoute
      [] verb = "load" -> LoadRoute
      [] verb = "save" -> SaveRoute
      [] verb = "logout" -> LogoutRoute
      [] verb = "probe" -> ProbeRoute
      [] verb = "login" -> LoginRoute

\* A handler that throws.
Broken == 500

\* requireSameOrigin: a read passes whatever its origin.
OriginRefused(verb) ==
    IF verb \in {"list", "detail", "export", "load", "probe"} THEN {} ELSE {403}

\* The operator routes exist only where a password was set; the login stands
\* outside the gate, and a request the gate refuses reaches no handler.
Statuses(verb, hasPassword, admitted) ==
    IF ~hasPassword THEN {404}
    ELSE OriginRefused(verb) \cup
         (IF admitted \/ verb = "login" THEN RouteOf(verb) \cup {Broken} ELSE {401})

-----------------------------------------------------------------------------
(* The client *)

Success(status) == status \in 200 .. 299

\* A refusal's own reason, where the client reads one; `whole` is a body that has
\* what the function looks for.
CreateDraftResult(status, whole) ==
    IF status = 401 THEN "unauthorized" ELSE IF status = 201 /\ whole THEN "ok" ELSE "refused"
UpdateDraftResult(status, whole) ==
    IF status = 401 THEN "unauthorized" ELSE IF Success(status) /\ whole THEN "ok" ELSE "refused"
SaveSettingsResult(status, whole) ==
    IF status = 401 THEN "unauthorized" ELSE IF Success(status) /\ whole THEN "ok" ELSE "refused"

\* FetchResult
Fetched(status, whole) ==
    IF status = 401 THEN "unauthorized"
    ELSE IF Success(status) /\ whole THEN "ok" ELSE "unreachable"
FetchSettings(status, whole) == Fetched(status, whole)
FetchCohortDetail(status, whole) == Fetched(status, whole)
FetchOperatorCohorts(status, whole) == Fetched(status, whole)
DownloadExport(status, whole) == Fetched(status, whole)
AdvertisingToggled(status, whole) == Fetched(status, whole)
BroadcastDisabled(status, whole) == Fetched(status, whole)

\* No body is read.
DiscardResult(status) == Fetched(status, TRUE)
CancelResult(status) == Fetched(status, TRUE)
DismissResult(status) == Fetched(status, TRUE)

FinalizeResult(status) == IF status = 409 THEN "refused" ELSE Fetched(status, TRUE)
AddTestPeersResult(status, whole) ==
    IF status = 409 THEN "refused" ELSE Fetched(status, whole)

Declined(result) == IF result = "unreachable" THEN "declined" ELSE result
AdvertiseResult(status, whole) ==
    IF status = 409 THEN "refused" ELSE Declined(Fetched(status, whole))
ReadvertiseResult(status) ==
    IF status = 409 THEN "refused" ELSE Declined(Fetched(status, TRUE))

\* sessionProbe
SessionProbe(status) ==
    CASE status = 200 -> "logged-in"
      [] status = 404 -> "disabled"
      [] status = 401 -> "logged-out"
      [] OTHER -> "unreachable"

\* login, as signIn reads its status.
LoginResult(status) ==
    CASE status = 200 -> "ok" [] status = 404 -> "disabled" [] OTHER -> "failed"

ResultOf(verb, status, whole) ==
    CASE verb = "create" -> CreateDraftResult(status, whole)
      [] verb = "list" -> FetchOperatorCohorts(status, whole)
      [] verb = "edit" -> UpdateDraftResult(status, whole)
      [] verb = "discard" -> DiscardResult(status)
      [] verb = "advertise" -> AdvertiseResult(status, whole)
      [] verb = "readvertise" -> ReadvertiseResult(status)
      [] verb = "cancel" -> CancelResult(status)
      [] verb = "finalize" -> FinalizeResult(status)
      [] verb = "detail" -> FetchCohortDetail(status, whole)
      [] verb = "export" -> DownloadExport(status, whole)
      [] verb = "dismiss" -> DismissResult(status)
      [] verb = "testPeers" -> AddTestPeersResult(status, whole)
      [] verb = "pause" -> AdvertisingToggled(status, whole)
      [] verb = "broadcast" -> BroadcastDisabled(status, whole)
      [] verb = "load" -> FetchSettings(status, whole)
      [] verb = "save" -> SaveSettingsResult(status, whole)
      [] verb = "logout" -> Fetched(status, TRUE)

================================================================================

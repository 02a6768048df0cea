--------------------------------- MODULE Browser ---------------------------------
(***************************************************************************)
(* The browser (frontend/src/coffee/main.coffee): a tab is opened on one   *)
(* of two pages, whose controllers share nothing but the endpoint.  The    *)
(* controller of the other page does not exist: Presentation describes it  *)
(* as one that was left, Statistics as one without updates.                *)
(***************************************************************************)
EXTENDS Presentation, Statistics

VARIABLE route   \* $location.path()

browser == <<page, stats, route>>

\* $routeProvider constructs the controller of the path.
OpenPresentation == PageInit /\ StatsInit /\ route = "presentation"
OpenStatistics   == PageClosed /\ StatsInit /\ route = "stats"

BrowserInit == OpenPresentation \/ OpenStatistics

OnPresentation(step) == route = "presentation" /\ step /\ UNCHANGED <<stats, route>>
OnStatistics(step)   == route = "stats" /\ step /\ UNCHANGED <<page, route>>

BrowserNext == OnPresentation(PageNext) \/ OnStatistics(StatsNext)

\* Requests are answered, one way or the other, and timers run off: the browser
\* does not stop while any of that is left to do.  Nobody need click.
BrowserSpec ==
  /\ BrowserInit /\ [][BrowserNext]_browser
  /\ WF_browser(OnPresentation(PageGoesOn))
  /\ WF_browser(OnStatistics(StatsGoOn))
=============================================================================

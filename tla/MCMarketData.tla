---------------------------- MODULE MCMarketData ----------------------------
(***************************************************************************)
(* The candle cache: the catch-up, the discovery of gaps and the refresh   *)
(* that it calls.  CatchUp has the two calls as steps over sets of         *)
(* minutes; a behaviour follows one of the three on an instance of its     *)
(* own, and the others rest.                                               *)
(*                                                                         *)
(* Four minutes to catch up with; six of two ticks each to discover gaps   *)
(* in, where a chunk of two minutes begins on a minute or inside one; and  *)
(* four of two ticks each to refresh in pages of two candles.              *)
(***************************************************************************)
EXTENDS CatchUpProperties, GapProperties, KlineFetch, TLC

VARIABLE followed

marketVars == <<followed, vars, observedGapVars, fetchVars>>

MCOpens == {0, 2, 4, 6, 8, 10}

MarketInit ==
  /\ followed \in {"catch-up", "discovery", "refresh"}
  /\ ObservedInit /\ (followed # "catch-up" => cache = {})
  /\ ObservedGapInit /\ (followed # "discovery" => stored = {} /\ start = 0 /\ end = 1)
  /\ FetchInit

MarketNext ==
  /\ UNCHANGED followed
  /\ \/ followed = "catch-up" /\ Next /\ Observe /\ UNCHANGED <<observedGapVars, fetchVars>>
     \/ followed = "discovery" /\ GapNext /\ ObserveAbsence /\ UNCHANGED <<vars, fetchVars>>
     \/ followed = "refresh" /\ FetchNext /\ UNCHANGED <<vars, observedGapVars>>

MarketSpec ==
  /\ MarketInit
  /\ [][MarketNext]_marketVars
  /\ WF_marketVars(followed = "catch-up" /\ ThreadStep /\ Observe /\ UNCHANGED <<followed, observedGapVars, fetchVars>>)
  /\ \A f \in Refreshers :
       WF_marketVars(followed = "refresh" /\ Proceed(f) /\ UNCHANGED <<followed, vars, observedGapVars>>)
=============================================================================

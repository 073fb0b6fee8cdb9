------------------------------ MODULE MCMetrics ------------------------------
(* Configurations for the runs of Metrics.                                  *)
EXTENDS Metrics

Counter(n) == [name |-> n, kind |-> "counter"]
Gauge(n) == [name |-> n, kind |-> "gauge"]

\* They add a metric, drop one, and change the kind of one.
MCConfigurations ==
  {<<Counter("hits")>>, <<Gauge("load"), Counter("hits")>>,
   <<Gauge("load"), Gauge("hits")>>}
MCDeltas == {-1, 1, 2}
=============================================================================

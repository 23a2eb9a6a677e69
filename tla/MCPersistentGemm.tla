-------------------------- MODULE MCPersistentGemm --------------------------
(* Instances of PersistentGemm for TLC: problems and devices. *)
EXTENDS PersistentGemm

Plain == [m |-> 2, n |-> 2, l |-> 1, kt |-> 20, cm |-> 1, cn |-> 1,
          max_swizzle_size |-> 1, raster_order |-> "Heuristic",
          sm_count |-> 3, max_active_clusters |-> 0,
          scheduler |-> "stream-K", splits |-> 1, decomposition_mode |-> "Heuristic",
          deterministic |-> TRUE, slots |-> 1, runs |-> 1]

(* One cluster after the other: little interleaving, many sizes. *)
Sizes ==
  {[Plain EXCEPT !.m = m, !.n = n, !.kt = kt, !.sm_count = sms, !.decomposition_mode = mode,
                 !.max_swizzle_size = 2] :
     m \in {1, 4, 5}, n \in {1, 3}, kt \in {9, 20}, sms \in {2, 3, 5},
     mode \in {"Heuristic", "StreamK"}}

Clustered ==
  {[Plain EXCEPT !.m = m, !.n = 2, !.kt = 17, !.cm = c[1], !.cn = c[2], !.sm_count = 4,
                 !.raster_order = raster, !.decomposition_mode = "StreamK",
                 !.max_swizzle_size = 2] :
     m \in {1, 3}, c \in {<<2, 1>>, <<1, 2>>}, raster \in {"AlongM", "AlongN"}}

Rasters ==
  {[Plain EXCEPT !.m = m, !.n = n, !.l = 2, !.kt = 1, !.max_swizzle_size = swizzle, !.cn = 4 \div n,
                 !.raster_order = raster, !.sm_count = 4, !.scheduler = scheduler,
                 !.runs = IF n = 4 THEN 2 ELSE 1] :
     m \in {2, 3}, n \in {2, 4}, swizzle \in {1, 4}, raster \in {"AlongM", "AlongN"},
     scheduler \in {"static", "stream-K"}}

(* 114 multiprocessors make 57 pairs: no whole number of 2x2 clusters. *)
Refused == {[Plain EXCEPT !.cm = 2, !.cn = 2, !.sm_count = 114]}

(* Launched twice after one initialize(), with a tile that is split. *)
Relaunched ==
  {[Plain EXCEPT !.m = 1, !.n = 1, !.sm_count = 2, !.slots = 2, !.deterministic = det,
                 !.decomposition_mode = "StreamK", !.runs = 2] : det \in BOOLEAN}

(* Clusters of four blocks.  Larger ones have too many interleavings. *)
Wide ==
  {[Plain EXCEPT !.n = 1, !.kt = 17, !.cm = c[1], !.cn = c[2], !.sm_count = 8,
                 !.decomposition_mode = "StreamK"] : c \in {<<4, 1>>, <<2, 2>>, <<1, 4>>}}

(* The host knows how many clusters are active at a time: fewer or more    *)
(* than the problem has, or more than the device has room for, which is    *)
(* not believed.                                                           *)
Occupied ==
  {[Plain EXCEPT !.m = m, !.kt = 17, !.cm = c[1], !.cn = c[2], !.sm_count = 6,
                 !.max_active_clusters = max, !.decomposition_mode = "StreamK",
                 !.scheduler = scheduler] :
     m \in {1, 4}, c \in {<<2, 1>>, <<1, 2>>}, max \in {1, 3, 4},
     scheduler \in {"static", "stream-K"}}

(* All clusters at once: every interleaving, few sizes. *)
Crowds ==
  {[Plain EXCEPT !.m = m, !.n = 1, !.kt = kt, !.sm_count = 4, !.decomposition_mode = "StreamK",
                 !.deterministic = det, !.slots = 4] :
     m \in {1, 2, 3}, kt \in {20, 32}, det \in BOOLEAN}
  \cup
  {[Plain EXCEPT !.m = m, !.n = 1, !.kt = 3, !.splits = splits, !.sm_count = 4,
                 !.deterministic = det, !.slots = 4] :
     m \in {1, 2}, splits \in {2, 3}, det \in BOOLEAN}

(* Two of four clusters at once, and two clusters of two blocks. *)
Queues ==
  {[Plain EXCEPT !.n = 1, !.kt = 20, !.sm_count = 4, !.decomposition_mode = "StreamK",
                 !.cm = cm, !.m = m, !.deterministic = det, !.slots = 2] :
     cm \in {1, 2}, m \in {2, 3}, det \in BOOLEAN}

MCProblems ==
  Sizes \cup Clustered \cup Rasters \cup Refused \cup Wide \cup Occupied \cup Crowds \cup Queues
=============================================================================

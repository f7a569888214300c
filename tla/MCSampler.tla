----------------------------- MODULE MCSampler -----------------------------
(* Devices with up to two slices, and the reports of drivers of different  *)
(* age.  A counter and an int have sixteen values, which the traffic of    *)
(* two slices together exceeds.                                            *)
EXTENDS Sampler

Prop(id, bytes) == [id |-> id, bytes |-> bytes]

GpuId(product) == Prop(raw_gpu_id, <<0, 0, product % 256, product \div 256>>)
Slices(n) == Prop(l2_num_l2_slices, <<n, 0, 0, 0>>)
SlicesInAByte(n) == Prop(l2_num_l2_slices, <<n>>)
Groups(n) == Prop(coherency_num_core_groups, <<n, 0, 0, 0>>)
Group(i, mask) == Prop(coherency_group(i), <<mask, 0, 0, 0, 0, 0, 0, 0>>)
CoreFeatures(n) == Prop(raw_core_features, <<n, 0, 0, 0>>)
ThreadFeatures(n) == Prop(raw_thread_features, <<0, n, 0, 0>>)

Device(props, cut) == [props |-> props, cut |-> cut]

G76 == <<GpuId(29201), Slices(2), Groups(1), Group(0, 13)>>
MCDevices ==
    { Device(G76, 0),
      Device(<<GpuId(28672), ThreadFeatures(32), SlicesInAByte(1), Groups(2),
               Group(0, 1), Group(1, 1)>>, 0),
      Device(<<GpuId(37893), Slices(1), Groups(2), Group(0, 3), Group(1, 4)>>, 0),
      Device(<<GpuId(1856), Slices(1), Groups(1), Group(0, 15)>>, 0),
      Device(<<GpuId(45059), CoreFeatures(3), Slices(1)>>, 0),
      Device(G76, 3), Device(G76, 6), Device(G76, 9) }

MCUninitialized == {{}, {1, 5}}
MCCells == {<<0, 32>>, <<1, 32>>, <<0, 47>>}
MCAmounts ==
    [cell \in MCCells |-> IF cell[2] = 47 THEN 1
                          ELSE IF cell[1] = 0 THEN 5 ELSE 12]
MCCounterLists ==
    [d \in MCDevices |->
        IF d.props # G76 \/ d.cut # 0 THEN {<<MaliExtBusRdBt, MaliExtBusWrBt>>}
        ELSE { <<MaliExtBusRd, 372, MaliExtBusWrBt, MaliExtBusWr, MaliExtBusRdBt,
                 MaliExtBusWrBt>>,
               <<MaliExtBusRdBt>> }]
MCAhead == {1}
=============================================================================

---------------------------- MODULE MCGpuReceiver ----------------------------
(* An ECC counter, a PCIe rate and a plain reading, in schema order.         *)
EXTENDS GpuReceiver

MCReads == <<"PCIeReceive", "ECCCorrected", "Temperature">>
==============================================================================

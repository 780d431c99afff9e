------------------------------ MODULE MCClient ------------------------------
(* One run for what the client does before its transport: the plugins and  *)
(* the values it writes and reads.  They meet in no shared state, so part  *)
(* says which moves: one of MCPlugins, or "io" for the parts of MCIO.      *)
EXTENDS MCPlugins, MCIO

plugVars == <<cvars, corevars, loadvars, ratevars>>
ioVars   == <<codecVars, byteVars, textVars, rpcVars>>

IOOff == ioPart = "off" /\ CodecOff /\ BytesOff /\ TextsOff /\ RpcOff

ClientInit ==
  \/ MCInit /\ IOOff
  \/ part = "io" /\ Begin /\ IOInit

ClientNext ==
  \/ MCNext /\ UNCHANGED <<ioPart, ioVars>>
  \/ part = "io" /\ IONext /\ UNCHANGED <<part, plugVars>>

ClientSpec == ClientInit /\ [][ClientNext]_<<part, plugVars, ioPart, ioVars>>
=============================================================================

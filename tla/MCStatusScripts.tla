-------------------------- MODULE MCStatusScripts --------------------------
(* Small instances of StatusScripts for TLC. *)
EXTENDS StatusScripts, TLC

CONSTANTS mario, luigi, fireball, allFighters, s1, m1, res, dev, own, common,
          waza, resLow, resHigh, devLow, devHigh, devAll, resWaza, devWaza

\* One module, with a function of its own for the status or making do with that
\* of "common": of one fighter, or of two and a weapon.
Serving(hashes, native) ==
  m1 :> [hashes |-> hashes, acmdHashes |-> hashes, native |-> (s1 :> native),
         waza |-> waza]
OwnFighter   == Serving({mario}, own)
PlainFighter == Serving({mario}, Null)
PlainFamily  == Serving({mario, luigi, fireball}, Null)
CommonTable  == s1 :> common

Req(p, h, low, f)  == [plugin |-> p, agent |-> h, slot |-> s1, low |-> low, fn |-> f]
WazaReq(p, low, f) == [plugin |-> p, agent |-> mario, low |-> low, fn |-> f]

\* Every way in which two plugins can want the same status of one agent.
LowAndHigh ==
  {Req(res, mario, TRUE, resLow), Req(res, mario, FALSE, resHigh),
   Req(dev, mario, TRUE, devLow), Req(dev, mario, FALSE, devHigh)}
\* The development plugin asks for the status of all fighters and of each of
\* two: one that a resident plugin replaces with high priority, one with low.
WithDevCommon ==
  {Req(res, mario, FALSE, resHigh), Req(res, luigi, TRUE, resLow),
   Req(dev, mario, FALSE, devHigh), Req(dev, luigi, FALSE, devHigh),
   Req(dev, luigi, TRUE, devLow), Req(dev, allFighters, FALSE, devAll)}
\* For the run in which every step of every thread interleaves: two of high
\* priority compete, and a low one may come before or after either.
TwoHigh ==
  {Req(res, mario, FALSE, resHigh),
   Req(dev, mario, TRUE, devLow), Req(dev, mario, FALSE, devHigh)}
NoRequest == {}

DevWaza  == {WazaReq(dev, FALSE, devWaza)}
BothWaza == {WazaReq(res, FALSE, resWaza), WazaReq(dev, TRUE, devWaza)}
=============================================================================

---------------------------- MODULE MCSubProcess ----------------------------
\* A thread provisions a VM, from the installation on.  Another one installs a
\* VM at the same time, or serves a client that asks for a port.  virsh is
\* not installed; the second thread may not get its third pipe.
EXTENDS SubProcess

CONSTANTS p1, p2

MCScripts(t) ==
  CASE t = p1 -> {SubSeq(provision, 5, Len(provision))}
    [] t = p2 -> {installVM \o <<Log>>, <<Log>> \o openNat}
MCOutputs == {[stdout |-> 1, stderr |-> 2]}
=============================================================================

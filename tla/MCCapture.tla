----------------------------- MODULE MCCapture -----------------------------
EXTENDS Capture

CONSTANTS eth0, eth1

TwoNics  == {eth0, eth1}
OneNic   == {eth0}
BothOnOne == <<eth0, eth0>>
OnFirst  == <<eth0>>
=============================================================================

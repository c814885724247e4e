-------------------------- MODULE MCPublishSession --------------------------
\* Instances of PublishSession for TLC.
EXTENDS PublishSession

ReceiveMaximaUpTo2 == {1, 2}
BothQos == {1, 2}
OnlyQos2 == {2}
ReceiveMaximum1 == {1}
=============================================================================

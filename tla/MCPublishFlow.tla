--------------------------- MODULE MCPublishFlow ---------------------------
\* Instances of PublishFlow for TLC.
EXTENDS PublishFlow

MCReceiveMaxima == {0, 1, 2}
MCQosLevels == {1, 2}
=============================================================================

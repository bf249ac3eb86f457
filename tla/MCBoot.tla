------------------------------- MODULE MCBoot -------------------------------
\* The boot processor and two others, and a barrier for three.
EXTENDS Boot
=============================================================================

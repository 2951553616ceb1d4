-------------------------- MODULE MCDockerLocation --------------------------
EXTENDS DockerLocation
=============================================================================

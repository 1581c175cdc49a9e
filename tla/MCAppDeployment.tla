-------------------------- MODULE MCAppDeployment --------------------------
(* Two Node.js applications and a PHP application, two requests in flight;  *)
(* three ports, one reserved, another one perhaps taken by some program.    *)
EXTENDS AppDeployment
=============================================================================

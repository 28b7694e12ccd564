----------------------------- MODULE MCEgressProxy -----------------------------
(* A model-checking instance of EgressProxy: a site, its subdomain, which is  *)
(* also on the default allowlist, a public and a private address.             *)
EXTENDS EgressProxy

CONSTANTS site, www, public, private, k1, t1

At(host, wild) == [name |-> host, wild |-> wild]
MCSubdomainOf == {<<www, site>>}
MCDefault     == {At(www, FALSE)}
MCGrants      == {{At(site, FALSE)}, {At(site, TRUE)}}
================================================================================

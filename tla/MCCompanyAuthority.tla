------------------------ MODULE MCCompanyAuthority ------------------------
(* The instance of CompanyAuthority: three interchangeable users and a Team. *)
EXTENDS CompanyAuthority, TLC

AnyUser == Permutations(Users)
===========================================================================

SPECIFICATION Spec
CONSTANTS
  Clients = {httpd}
  OverTemp = {ptc_overtemp}
  ArmedTrip = {link_lost}
PROPERTY FailedClearReleasesRam

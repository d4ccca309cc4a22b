SPECIFICATION Spec
CONSTANTS
  Handle = {h1, h2}
  SizeMax = 63
  Align = 2
  Header = 4
  CreateSizes = {29}
  Requests = {1, 13}
PROPERTY
  DeallocCoalesces
